---- MODULE Spec2Model ----
(***************************************************************************)
(* Hybrid product search of the fashion catalog: the product table and its *)
(* write paths (crud_product.py, products.py, regenerate_fashion_vectors)  *)
(* and the tiered search of the /ai-search and /search-by-clip endpoints   *)
(* (search.py, crud_product.py).                                           *)
(*                                                                         *)
(* Text is a sequence of characters; a Hangul syllable is written as its   *)
(* romanisation ("nam" "seong" is the word for "male"), with an underscore *)
(* when the romanisation is a Latin letter ("i_", "e_").  A vector is a    *)
(* run-length encoded sequence of numbers: <<[v |-> 1, n |-> 2],           *)
(* [v |-> 0, n |-> 766]>> is the 768-vector (1, 1, 0, ..., 0).             *)
(***************************************************************************)
EXTENDS Integers, Sequences, FiniteSets, TLC

\* None / SQL NULL, for a string (gender, a dict key's value)
NULL == "NULL"

\* None / SQL NULL, for a text
NoText == <<NULL>>

\* SQL NULL, for a timestamp
NoTime == 0 - 1

Min(a, b) == IF a <= b THEN a ELSE b

Max(a, b) == IF a >= b THEN a ELSE b


Range(s) == {s[i] : i \in DOMAIN s}

(***************************************************************************)
(* Text                                                                    *)
(***************************************************************************)
SP == " "

\* str.lower(): only the Latin capitals of the alphabet in use change.
LowerChar(c) ==
    CASE c = "M" -> "m"
      [] c = "W" -> "w"
      [] c = "T" -> "t"
      [] c = "B" -> "b"
      [] c = "O" -> "o"
      [] c = "D" -> "d"
      [] OTHER -> c

Lower(s) == [i \in DOMAIN s |-> LowerChar(s[i])]

\* needle occurs in hay at position i (1-based)
OccursAt(hay, needle, i) ==
    /\ i + Len(needle) - 1 <= Len(hay)
    /\ \A k \in 1..Len(needle) : hay[i + k - 1] = needle[k]

\* Python's `needle in hay`
Contains(hay, needle) ==
    \E i \in 1..(Len(hay) + 1) : OccursAt(hay, needle, i)

EndsWith(s, suf) ==
    Len(suf) <= Len(s) /\ OccursAt(s, suf, Len(s) - Len(suf) + 1)

\* str.replace(word, ""): the non-overlapping occurrences, left to right
RECURSIVE Remove(_, _)
Remove(s, word) ==
    IF s = <<>> \/ word = <<>> THEN s
    ELSE IF OccursAt(s, word, 1)
         THEN Remove(SubSeq(s, Len(word) + 1, Len(s)), word)
         ELSE <<s[1]>> \o Remove(Tail(s), word)

RECURSIVE RemoveAll(_, _)
RemoveAll(s, words) ==
    IF words = <<>> THEN s ELSE RemoveAll(Remove(s, Head(words)), Tail(words))

RECURSIVE LStrip(_)
LStrip(s) == IF s # <<>> /\ s[1] = SP THEN LStrip(Tail(s)) ELSE s

RECURSIVE RStrip(_)
RStrip(s) ==
    IF s # <<>> /\ s[Len(s)] = SP THEN RStrip(SubSeq(s, 1, Len(s) - 1)) ELSE s

Strip(s) == RStrip(LStrip(s))

\* str.split(): the maximal runs of non-blank characters
RECURSIVE SplitFrom(_, _)
SplitFrom(s, cur) ==
    IF s = <<>> THEN (IF cur = <<>> THEN <<>> ELSE <<cur>>)
    ELSE IF s[1] = SP
         THEN (IF cur = <<>> THEN <<>> ELSE <<cur>>) \o SplitFrom(Tail(s), <<>>)
         ELSE SplitFrom(Tail(s), Append(cur, s[1]))

Split(s) == SplitFrom(s, <<>>)

\* str.replace(" ", "")
NoSpaces(s) == SelectSeq(s, LAMBDA c : c # SP)

\* re.sub(r'(...)$', '', s): the leftmost match ending at the end of s
StripParticle(s, particles) ==
    IF \E p \in particles : Len(p) = 2 /\ EndsWith(s, p)
    THEN SubSeq(s, 1, Len(s) - 2)
    ELSE IF \E p \in particles : Len(p) = 1 /\ EndsWith(s, p)
         THEN SubSeq(s, 1, Len(s) - 1)
         ELSE s

MaleWords ==
    { <<"nam", "ja">>, <<"nam", "seong">>, <<"maen">>, <<"m", "e", "n">>,
      <<"m", "a", "l", "e">>, <<"b", "o", "y">> }

FemaleWords ==
    { <<"yeo", "ja">>, <<"yeo", "seong">>, <<"u_", "meon">>,
      <<"w", "o", "m", "e", "n">>, <<"f", "e", "m", "a", "l", "e">>,
      <<"g", "i", "r", "l">> }

detect_gender_intent(query) ==
    IF query = <<>> THEN NULL
    ELSE IF \E x \in MaleWords : Contains(Lower(query), x) THEN "Male"
    ELSE IF \E x \in FemaleWords : Contains(Lower(query), x) THEN "Female"
    ELSE NULL

remove_words ==
    << <<"nam", "ja">>, <<"yeo", "ja">>, <<"nam", "seong">>, <<"yeo", "seong">>,
       <<"nam", "seong", "yong">>, <<"yeo", "seong", "yong">>,
       <<"chu", "cheon">>, <<"hae", "jwo">>, <<"bo", "yeo", "jwo">>,
       <<"chaj", "a_", "jwo">>, <<"al", "lyeo", "jwo">>,
       <<"seu", "ta", "il">>, <<"pae", "syeon">>, <<"ui", "ryu">>, <<"yong">> >>

CoreParticles ==
    { <<"eun">>, <<"neun">>, <<"i_">>, <<"ga">>, <<"eul">>, <<"reul">>,
      <<"ui">>, <<"e_">>, <<"ro">> }

extract_core_keyword(query) ==
    IF query = <<>> THEN <<>>
    ELSE LET removed  == RemoveAll(query, remove_words)
             result   == StripParticle(Strip(removed), CoreParticles)
         IN  IF Strip(result) # <<>> THEN Strip(result) ELSE query

stop_words ==
    { <<"chu", "cheon">>, <<"hae", "jwo">>, <<"bo", "yeo", "jwo">>,
      <<"chaj", "a_", "jwo">>, <<"al", "lyeo", "jwo">>, <<"eo", "ttae">>,
      <<"sa", "jin">>, <<"i_", "mi", "ji">>, <<"seu", "ta", "il">>,
      <<"pae", "syeon">>, <<"ot">> }

KeywordParticles ==
    CoreParticles \cup
    { <<"eu", "ro">>, <<"gwa">>, <<"wa">>, <<"do">>, <<"man">> }

RECURSIVE CleanWords(_)
CleanWords(words) ==
    IF words = <<>> THEN <<>>
    ELSE LET clean_word == StripParticle(Head(words), KeywordParticles)
         IN  (IF clean_word # <<>> /\ Len(clean_word) >= 2
                    /\ clean_word \notin stop_words
              THEN <<clean_word>> ELSE <<>>) \o CleanWords(Tail(words))

_extract_keywords(query) ==
    LET keywords   == CleanWords(Split(query))
        full_query == NoSpaces(query)
    IN  IF Len(full_query) >= 1 THEN <<full_query>> \o keywords ELSE keywords

(***************************************************************************)
(* Vectors                                                                 *)
(***************************************************************************)
TextDim == 768

ClipDim == 512

Run(v, n) == [v |-> v, n |-> n]

\* drops empty runs and merges neighbours of equal value, so that equal
\* vectors have equal encodings
RECURSIVE Norm(_)
Norm(vec) ==
    IF vec = <<>> THEN <<>>
    ELSE IF Head(vec).n = 0 THEN Norm(Tail(vec))
    ELSE LET rest == Norm(Tail(vec))
         IN  IF rest # <<>> /\ Head(rest).v = Head(vec).v
             THEN <<Run(Head(vec).v, Head(vec).n + Head(rest).n)>> \o Tail(rest)
             ELSE <<Head(vec)>> \o rest

\* len(vector)
RECURSIVE VLen(_)
VLen(vec) == IF vec = <<>> THEN 0 ELSE Head(vec).n + VLen(Tail(vec))

\* [0.0] * dim
Zeros(dim) == Norm(<<Run(0, dim)>>)

\* vector[:k]
RECURSIVE Take(_, _)
Take(vec, k) ==
    IF vec = <<>> \/ k <= 0 THEN <<>>
    ELSE IF Head(vec).n >= k THEN <<Run(Head(vec).v, k)>>
    ELSE <<Head(vec)>> \o Take(Tail(vec), k - Head(vec).n)

\* vector[k:]
RECURSIVE Drop(_, _)
Drop(vec, k) ==
    IF vec = <<>> \/ k <= 0 THEN vec
    ELSE IF Head(vec).n > k
         THEN <<Run(Head(vec).v, Head(vec).n - k)>> \o Tail(vec)
         ELSE Drop(Tail(vec), k - Head(vec).n)

\* None / SQL NULL, for a vector
NoVec == <<Run(0, 0 - 1)>>

\* `not vector`: None or the empty list
Falsy(vec) == vec = NoVec \/ vec = <<>>

\* a repair that pads but never cuts
_validate_vector_uncut(vector, dim) ==
    IF Falsy(vector) THEN Zeros(dim)
    ELSE IF VLen(vector) < dim
         THEN Norm(vector \o <<Run(0, dim - VLen(vector))>>)
         ELSE vector

_validate_vector(vector, dim) ==
    IF Falsy(vector) \/ VLen(vector) = 0 THEN Zeros(dim)
    ELSE IF VLen(vector) # dim
         THEN IF VLen(vector) < dim
              THEN Norm(vector \o <<Run(0, dim - VLen(vector))>>)
              ELSE Norm(Take(vector, dim))
         ELSE vector

\* the inner product of two vectors of equal length
RECURSIVE Dot(_, _)
Dot(a, b) ==
    IF a = <<>> \/ b = <<>> THEN 0
    ELSE LET k == Min(Head(a).n, Head(b).n)
         IN  k * Head(a).v * Head(b).v + Dot(Drop(a, k), Drop(b, k))

\* the largest r with r * r <= m, for lo * lo <= m < hi * hi
RECURSIVE IsqrtIn(_, _, _)
IsqrtIn(m, lo, hi) ==
    IF hi - lo <= 1 THEN lo
    ELSE LET mid == (lo + hi) \div 2
         IN  IF mid * mid <= m THEN IsqrtIn(m, mid, hi) ELSE IsqrtIn(m, lo, mid)

Isqrt(m) == IsqrtIn(m, 0, 46340)

\* a distance d is held as the integer d * DistUnit
DistUnit == 10000

\* the distance of a pair with a zero vector: 0/0
NaN == 0 - 1

\* pgvector's <=> : 1 - a.b / (|a| |b|)
cosine_distance(a, b) ==
    LET nn == Dot(a, a) * Dot(b, b)
        ab == Dot(a, b)
        \* |a| |b| in thousandths
        den == Isqrt(nn * 1000000)
        mag == ((IF ab < 0 THEN 0 - ab ELSE ab) * 1000 * DistUnit) \div den
    IN  IF nn = 0 THEN NaN
        ELSE IF ab < 0 THEN DistUnit + mag ELSE DistUnit - mag

\* ORDER BY distance ASC: PostgreSQL sorts NaN after every number
SortKey(d) == IF d = NaN THEN 2 * DistUnit + 1 ELSE d

(***************************************************************************)
(* The product table                                                       *)
(***************************************************************************)
SHIRT == <<"syeo", "cheu">>

PANTS == <<"ba", "ji">>

TOPS == <<"T", "o", "p", "s">>

BOTTOMS == <<"B", "o", "t", "t", "o", "m", "s">>

OUTERWEAR == <<"O", "u", "t", "e", "r", "w", "e", "a", "r">>

DRESSES == <<"D", "r", "e", "s", "s", "e", "s">>

\* text embeddings (768) and image embeddings (512) the AI service returns
TextA == <<Run(1, 1), Run(0, TextDim - 1)>>

TextB == <<Run(0, 1), Run(1, 1), Run(0, TextDim - 2)>>

TextAB == <<Run(1, 2), Run(0, TextDim - 2)>>

ClipA == <<Run(1, 1), Run(0, ClipDim - 1)>>

ClipB == <<Run(0, 1), Run(1, 1), Run(0, ClipDim - 2)>>

ClipAB == <<Run(1, 2), Run(0, ClipDim - 2)>>

\* a vector of the wrong length, as a faulty upstream service returns it
ShortVec == <<Run(1, 3)>>

VARIABLE products   \* the rows of table products: id -> row

VARIABLE now        \* the database clock

Ids == DOMAIN products

\* Vector(dim) column: PostgreSQL refuses a value of another dimension
VectorColumnLax(value, dim) == TRUE

VectorColumn(value, dim) == value = NoVec \/ VLen(value) = dim

\* the row fits the declared column types of the table
RowAccepted(row) ==
    /\ VectorColumn(row.embedding, TextDim)
    /\ VectorColumn(row.embedding_clip, ClipDim)
    /\ VectorColumn(row.embedding_clip_upper, ClipDim)
    /\ VectorColumn(row.embedding_clip_lower, ClipDim)

\* dict.get(key, default); a dict is a record of the keys it holds
Get(data, key, default) == IF key \in DOMAIN data THEN data[key] ELSE default

\* the write path's repair of the vector under key, when the key is there
Validated(data, key, dim) ==
    IF key \in DOMAIN data THEN _validate_vector(data[key], dim) ELSE NoVec

\* the price an upload starts from
UploadPrice == 50000

\* CRUDProduct.create: the row Product(**create_data), columns not given
\* taking their defaults
create(create_data) ==
    [ name                 |-> create_data.name,
      description          |-> Get(create_data, "description", NoText),
      category             |-> create_data.category,
      gender               |-> Get(create_data, "gender", NULL),
      image_url            |-> Get(create_data, "image_url", NULL),
      is_active            |-> Get(create_data, "is_active", TRUE),
      price                |-> Get(create_data, "price", UploadPrice),
      created_at           |-> now,
      deleted_at           |-> NoTime,
      embedding            |-> Validated(create_data, "embedding", TextDim),
      embedding_clip       |-> Validated(create_data, "embedding_clip", ClipDim),
      embedding_clip_upper |-> Validated(create_data, "embedding_clip_upper", ClipDim),
      embedding_clip_lower |-> Validated(create_data, "embedding_clip_lower", ClipDim) ]

\* CRUDProduct.update: only the text vector is repaired; every key is set
update(db_obj, update_data) ==
    [ field \in DOMAIN db_obj |->
        IF field \in DOMAIN update_data
        THEN IF field = "embedding"
             THEN _validate_vector(update_data[field], TextDim)
             ELSE update_data[field]
        ELSE db_obj[field] ]

\* CRUDProduct.get
get(product_id) ==
    IF product_id \in Ids /\ products[product_id].deleted_at = NoTime
    THEN {product_id} ELSE {}

WithRow(product_id, row) ==
    [i \in Ids \cup {product_id} |-> IF i = product_id THEN row ELSE products[i]]

WithoutRow(product_id) == [i \in Ids \ {product_id} |-> products[i]]

(***************************************************************************)
(* Queries.  A SELECT returns one of the row orders its ORDER BY allows:   *)
(* rows of equal sort key, and all rows of a SELECT without ORDER BY,      *)
(* come in any order.  The operators yield the set of possible answers.    *)
(***************************************************************************)
\* a distance that a query did not compute (NULL as distance)
NoDist == 0 - 2

\* the orders of the ids S by ascending key
RECURSIVE SortedSeqs(_, _)
SortedSeqs(S, key) ==
    IF S = {} THEN {<<>>}
    ELSE LET firsts == {i \in S : \A j \in S : key[i] <= key[j]}
         IN  UNION { {<<i>> \o rest : rest \in SortedSeqs(S \ {i}, key)} : i \in firsts }


\* SELECT ... WHERE id IN S ORDER BY key LIMIT n, each row tagged with its tier
Select(S, key, dist, n, tier) ==
    { [k \in 1..Min(n, Cardinality(S)) |->
          [id |-> s[k], distance |-> dist[s[k]], tier |-> tier]] :
      s \in SortedSeqs(S, key) }

ByDistance(S, column, vector) ==
    [i \in S |-> SortKey(cosine_distance(products[i][column], vector))]

Distances(S, column, vector) ==
    [i \in S |-> cosine_distance(products[i][column], vector)]

NoDistances(S) == [i \in S |-> NoDist]

\* ORDER BY created_at DESC
ByRecency(S) == [i \in S |-> 0 - products[i].created_at]

Unordered(S) == [i \in S |-> 0]

\* Product.is_active == True, Product.deleted_at.is_(None)
IsLive(p) == p.is_active = TRUE /\ p.deleted_at = NoTime

\* gender = G OR gender = 'Unisex' OR gender IS NULL, when a filter is given
GenderExact(p, filter_gender) ==
    filter_gender = NULL \/ p.gender = filter_gender

GenderOk(p, filter_gender) ==
    filter_gender = NULL \/ p.gender \in {filter_gender, "Unisex", NULL}

\* column ILIKE '%keyword%'
ILike(value, keyword) ==
    value # NoText /\ Contains(Lower(value), Lower(keyword))

KeywordMatch(p, keyword) ==
    \/ ILike(p.name, keyword)
    \/ ILike(p.description, keyword)
    \/ ILike(p.category, keyword)

\* `vec and len(vec) == dim`
IsVector(vec, dim) == ~Falsy(vec) /\ VLen(vec) = dim

\* CRUDProduct.get_multi(skip=0, limit): no ORDER BY, no is_active condition
get_multi(limit) ==
    LET S == {i \in Ids : products[i].deleted_at = NoTime}
    IN  Select(S, Unordered(S), NoDistances(S), limit, "LATEST")

\* the rows not yet in final_results are appended (seen_ids)
AppendAll(final_results, rows) == final_results \o rows

RECURSIVE AppendUnseen(_, _)
AppendUnseen(final_results, rows) ==
    IF rows = <<>> THEN final_results
    ELSE AppendUnseen(
            IF Head(rows).id \in {final_results[k].id : k \in DOMAIN final_results}
            THEN final_results
            ELSE Append(final_results, Head(rows)),
            Tail(rows))

\* search_smart_hybrid, step 1: the query of one keyword
KeywordQuery(keyword, bert_vector, limit, filter_gender) ==
    IF IsVector(bert_vector, TextDim)
    THEN LET S == {i \in Ids : /\ IsLive(products[i])
                               /\ GenderOk(products[i], filter_gender)
                               /\ products[i].embedding # NoVec
                               /\ KeywordMatch(products[i], keyword)}
         IN  Select(S, ByDistance(S, "embedding", bert_vector),
                    Distances(S, "embedding", bert_vector), limit, "KEYWORD")
    ELSE LET S == {i \in Ids : /\ IsLive(products[i])
                               /\ GenderOk(products[i], filter_gender)
                               /\ KeywordMatch(products[i], keyword)}
         IN  Select(S, ByRecency(S), NoDistances(S), limit, "KEYWORD")

\* an entry of the query log: the tier queried and how many rows came back
Queried(tier, rows) == [tier |-> tier, found |-> Len(rows)]

\* search_smart_hybrid, step 1: the loop over the keywords; acc holds
\* final_results and the queries issued
RECURSIVE KeywordLoop(_, _, _, _, _)
KeywordLoop(keywords, acc, bert_vector, limit, filter_gender) ==
    IF keywords = <<>> THEN {acc}
    ELSE IF Len(Head(keywords)) < 1
         THEN KeywordLoop(Tail(keywords), acc, bert_vector, limit, filter_gender)
         ELSE UNION {
                KeywordLoop(Tail(keywords),
                            [results |-> AppendUnseen(acc.results, rows),
                             queries |-> Append(acc.queries, Queried("KEYWORD", rows))],
                            bert_vector, limit, filter_gender) :
                rows \in KeywordQuery(Head(keywords), bert_vector, limit, filter_gender) }

\* search_smart_hybrid, step 2: the nearest text vectors
TextVectorQuery(bert_vector, limit, filter_gender) ==
    LET S == {i \in Ids : /\ IsLive(products[i])
                          /\ GenderOk(products[i], filter_gender)
                          /\ products[i].embedding # NoVec}
    IN  Select(S, ByDistance(S, "embedding", bert_vector),
               Distances(S, "embedding", bert_vector), limit, "TEXT_VECTOR")

\* step 2 runs only when step 1 found nothing
SmartStep2Always(acc, bert_vector) == IsVector(bert_vector, TextDim)

SmartStep2(acc, bert_vector) ==
    Len(acc.results) = 0 /\ IsVector(bert_vector, TextDim)

\* CRUDProduct.search_smart_hybrid: the possible [results, queries]
search_smart_hybrid(query, bert_vector, limit, filter_gender) ==
    LET start == [results |-> <<>>, queries |-> <<>>]
        step1 == IF query # <<>> /\ Len(Strip(query)) >= 1
                 THEN KeywordLoop(_extract_keywords(query), start,
                                  bert_vector, limit, filter_gender)
                 ELSE {start}
    IN  UNION {
          IF SmartStep2(acc, bert_vector)
          THEN { [results |-> AppendUnseen(acc.results, rows),
                  queries |-> Append(acc.queries, Queried("TEXT_VECTOR", rows))] :
                 rows \in TextVectorQuery(bert_vector, limit, filter_gender) }
          ELSE {acc} :
          acc \in step1 }

\* the column search_by_clip_vector compares against
target_column_full(target) == "embedding_clip"

target_column(target) ==
    IF target = "upper" THEN "embedding_clip_upper"
    ELSE IF target = "lower" THEN "embedding_clip_lower"
    ELSE "embedding_clip"

\* CRUDProduct.search_by_clip_vector; include_category {} stands for None
search_by_clip_vector(clip_vector, limit, filter_gender, target, include_category) ==
    IF ~IsVector(clip_vector, ClipDim)
    THEN {[results |-> <<>>, queries |-> <<>>]}
    ELSE LET col == target_column(target)
             S == {i \in Ids : /\ IsLive(products[i])
                               /\ products[i][col] # NoVec
                               /\ (include_category = {}
                                     \/ products[i].category \in include_category)
                               /\ GenderOk(products[i], filter_gender)}
         IN  { [results |-> rows, queries |-> <<Queried("VISUAL", rows)>>] :
               rows \in Select(S, ByDistance(S, col, clip_vector),
                               Distances(S, col, clip_vector), limit, "VISUAL") }

\* CRUDProduct.search_hybrid: text vectors, else image vectors, else recency
search_hybrid(bert_vector, clip_vector, limit, filter_gender) ==
    LET S0 == {i \in Ids : IsLive(products[i]) /\ GenderOk(products[i], filter_gender)}
        St == {i \in S0 : products[i].embedding # NoVec}
        Sc == {i \in S0 : products[i].embedding_clip # NoVec}
        none == [results |-> <<>>, queries |-> <<>>]
        byText ==
            IF IsVector(bert_vector, TextDim)
            THEN { [results |-> rows, queries |-> <<Queried("HYBRID_TEXT", rows)>>] :
                   rows \in Select(St, ByDistance(St, "embedding", bert_vector),
                                   Distances(St, "embedding", bert_vector),
                                   limit, "HYBRID_TEXT") }
            ELSE {none}
        byClip(acc) ==
            IF acc.results = <<>> /\ IsVector(clip_vector, ClipDim)
            THEN { [results |-> rows,
                    queries |-> Append(acc.queries, Queried("HYBRID_CLIP", rows))] :
                   rows \in Select(Sc, ByDistance(Sc, "embedding_clip", clip_vector),
                                   Distances(Sc, "embedding_clip", clip_vector),
                                   limit, "HYBRID_CLIP") }
            ELSE {acc}
        byRecency(acc) ==
            IF acc.results = <<>>
            THEN { [results |-> rows,
                    queries |-> Append(acc.queries, Queried("HYBRID_RECENCY", rows))] :
                   rows \in Select(S0, ByRecency(S0), NoDistances(S0),
                                   limit, "HYBRID_RECENCY") }
            ELSE {acc}
    IN  UNION { UNION { byRecency(b) : b \in byClip(a) } : a \in byText }

(***************************************************************************)
(* Inputs                                                                  *)
(***************************************************************************)
\* the most write operations of a run
MaxWrites == 2

\* the largest result limit a request asks for
MaxLimit == 2

\* the most queries answered before one fails that a run follows
MaxLogged == 4

\* the limits requests ask for: the smallest and the largest
Limits == {1, MaxLimit}

\* "namseong syeocheu" (men's shirt), "syeocheu baji" (shirt trousers),
\* "yeoja ot" (women's clothes)
QueryMenShirt == <<"nam", "seong", SP, "syeo", "cheu">>

QueryShirtPants == <<"syeo", "cheu", SP, "ba", "ji">>

QueryWomenClothes == <<"yeo", "ja", SP, "ot">>

Queries == {QueryMenShirt, QueryShirtPants, QueryWomenClothes}

\* the dicts given to CRUDProduct.create
CreateInputs ==
    { [name |-> SHIRT, category |-> TOPS, gender |-> "Male",
       embedding |-> TextA, embedding_clip |-> ClipA,
       embedding_clip_upper |-> ClipA, embedding_clip_lower |-> ClipB],
      [name |-> SHIRT, category |-> TOPS, gender |-> "Female",
       embedding |-> TextB, embedding_clip |-> ClipB],
      [name |-> PANTS, category |-> BOTTOMS, gender |-> "Unisex",
       embedding |-> TextB],
      [name |-> PANTS, category |-> BOTTOMS, is_active |-> FALSE,
       embedding |-> NoVec] }

\* the answer `data` of the AI service to /process-internal or
\* /process-external, with the path /determine-path gave
AiResponses ==
    { [path |-> "INTERNAL", bert |-> TextAB, clip |-> ClipAB,
       strategy |-> "INTERNAL_TEXT"],
      [path |-> "INTERNAL", bert |-> Zeros(TextDim), clip |-> Zeros(ClipDim),
       strategy |-> "INTERNAL_TEXT"],
      [path |-> "EXTERNAL", bert |-> TextA, clip |-> ClipAB,
       strategy |-> "VISUAL_RAG_VLM"],
      [path |-> "INTERNAL", bert |-> ShortVec, clip |-> NoVec,
       strategy |-> "INTERNAL"] }

\* the answers of /generate-fashion-clip-vector and /generate-clip-vector
ClipAnswers ==
    { [code |-> 200, vector |-> ClipAB],
      [code |-> 200, vector |-> <<>>],
      [code |-> 503, vector |-> <<>>] }

\* no answer: every attempt failed
NoData == [path |-> "INTERNAL", bert |-> NoVec, clip |-> NoVec, strategy |-> "NONE"]

(***************************************************************************)
(* State                                                                   *)
(***************************************************************************)
VARIABLES
    next_id,          \* the serial of products.id
    writes,           \* the number of write operations so far
    pc,               \* where the request in flight stands
    handler,          \* the endpoint serving it
    req,              \* its inputs
    attempt,          \* ai_search: the retry loop's counter
    ai_data,          \* ai_search: the AI service's answer
    search_path,      \* ai_search: INTERNAL / EXTERNAL
    bert_vec,         \* ai_search: the text vector received
    clip_vec,         \* ai_search: the visual vector received
    search_strategy,  \* ai_search: the strategy label
    results,          \* the rows found, each [id, distance, tier]
    gender_filtered,  \* ai_search: gender_filter_applied
    status,           \* the HTTP status of the response (0: none yet)
    detail,           \* the detail of the HTTPException raised, if any
    tier_log,         \* the queries issued for the request, in order
    prev_results,     \* the rows of the request's previous run
    calc,             \* a function under study: its arguments, then its value
    semaphore,        \* AIOrchestrator.semaphore: the free download slots
    downloads,        \* the image downloads of each gathering request
    cache,            \* Redis: the entries of vector_search, each [key, value]
    engine            \* the ModelEngine singleton and the threads calling it

catalog_vars == << products, next_id, now, writes >>

\* the state outside the product table: the orchestrator's semaphore, the
\* Redis cache and the model engine
service_vars == << semaphore, downloads, cache, engine >>

request_vars ==
    << pc, handler, req, attempt, ai_data, search_path, bert_vec, clip_vec,
       search_strategy, results, gender_filtered, status, detail, tier_log,
       prev_results >>

vars ==
    << products, next_id, now, writes, pc, handler, req, attempt, ai_data,
       search_path, bert_vec, clip_vec, search_strategy, results,
       gender_filtered, status, detail, tier_log, prev_results, calc,
       semaphore, downloads, cache, engine >>

\* no function is under study
NoCalc == [op |-> "none"]

\* asyncio.Semaphore(5)
Slots == 5

\* the requests that gather external evidence at the same time
Gathers == {1, 2}

\* a request that is not gathering
NoGather == [results |-> 0, waiting |-> 0, in_flight |-> 0]

\* the threads that call the engine: the lifespan hook and request handlers
Threads == {"lifespan", "handler_1", "handler_2"}

\* ModelEngine after __init__: no model loaded, the lock free
NewEngine ==
    [ is_initialized |-> FALSE,
      lock           |-> NULL,
      bert_model     |-> "None",
      loads          |-> 0,
      pc             |-> [t \in Threads |-> "idle"],
      caller         |-> [t \in Threads |-> "none"],
      out            |-> [t \in Threads |-> NoVec] ]

NoRequest == [query |-> <<>>, limit |-> 0, target |-> "full", rerun |-> FALSE]

InitState ==
    /\ products = <<>>
    /\ next_id = 1
    /\ now = 1
    /\ writes = 0
    /\ pc = "idle"
    /\ handler = "none"
    /\ req = NoRequest
    /\ attempt = 0
    /\ ai_data = NoData
    /\ search_path = "INTERNAL"
    /\ bert_vec = NoVec
    /\ clip_vec = NoVec
    /\ search_strategy = "NONE"
    /\ results = <<>>
    /\ gender_filtered = TRUE
    /\ status = 0
    /\ detail = "none"
    /\ tier_log = <<>>
    /\ prev_results = <<>>
    /\ semaphore = Slots
    /\ downloads = [r \in Gathers |-> NoGather]
    /\ cache = {}
    /\ engine = NewEngine

Init == InitState /\ calc = NoCalc

\* the state of a request is dropped
Forget ==
    /\ pc' = "idle"
    /\ handler' = "none"
    /\ req' = NoRequest
    /\ attempt' = 0
    /\ ai_data' = NoData
    /\ search_path' = "INTERNAL"
    /\ bert_vec' = NoVec
    /\ clip_vec' = NoVec
    /\ search_strategy' = "NONE"
    /\ results' = <<>>
    /\ gender_filtered' = TRUE
    /\ status' = 0
    /\ detail' = "none"
    /\ tier_log' = <<>>
    /\ prev_results' = <<>>

\* no request is in flight
Quiet == pc = "idle"

\* fewer than n writes have been made
Budget(n) == writes < n

\* the response has been sent: the handler returns
Respond ==
    /\ pc = "done"
    /\ Forget
    /\ UNCHANGED << catalog_vars, calc, service_vars >>

(***************************************************************************)
(* Writes                                                                  *)
(***************************************************************************)
\* INSERT / UPDATE of a row: refused when a vector does not fit its column
Store(product_id, row) ==
    IF RowAccepted(row)
    THEN products' = WithRow(product_id, row)
    ELSE products' = products

\* POST of a product (upload, CSV import): CRUDProduct.create
CreateProduct(create_data) ==
    /\ Quiet
    /\ Store(next_id, create(create_data))
    /\ next_id' = next_id + 1
    /\ now' = now + 1
    /\ writes' = writes + 1
    /\ UNCHANGED << request_vars, calc, service_vars >>

\* PATCH /{product_id}: CRUDProduct.get, then CRUDProduct.update
UpdateProduct(product_id, update_data) ==
    /\ Quiet
    /\ product_id \in get(product_id)
    /\ Store(product_id, update(products[product_id], update_data))
    /\ writes' = writes + 1
    /\ UNCHANGED << next_id, now >>
    /\ UNCHANGED << request_vars, calc, service_vars >>

\* CRUDProduct.soft_delete
soft_delete(product_id) ==
    /\ Quiet
    /\ product_id \in Ids
    /\ products' = [products EXCEPT ![product_id].deleted_at = now]
    /\ writes' = writes + 1
    /\ UNCHANGED << next_id, now >>
    /\ UNCHANGED << request_vars, calc, service_vars >>

\* CRUDProduct.hard_delete
hard_delete(product_id) ==
    /\ Quiet
    /\ product_id \in Ids
    /\ products' = WithoutRow(product_id)
    /\ writes' = writes + 1
    /\ UNCHANGED << next_id, now >>
    /\ UNCHANGED << request_vars, calc, service_vars >>

(***************************************************************************)
(* POST /ai-search                                                         *)
(***************************************************************************)
max_retries == 3

target_gender == detect_gender_intent(req.query)

core_keyword == extract_core_keyword(req.query)

\* the queries of one crud call, as entries of the request's log
Tagged(call, queries) ==
    [k \in DOMAIN queries |->
        [call |-> call, tier |-> queries[k].tier, found |-> queries[k].found]]

\* lines 276-301: intent extraction and the defaults
BeginAiSearch(query, limit) ==
    /\ Quiet
    /\ pc' = "ai"
    /\ handler' = "ai_search"
    /\ req' = [query |-> query, limit |-> limit, target |-> "full", rerun |-> FALSE]
    /\ attempt' = 0
    /\ ai_data' = NoData
    /\ search_path' = "INTERNAL"
    /\ bert_vec' = NoVec
    /\ clip_vec' = NoVec
    /\ search_strategy' = "SMART_HYBRID"
    /\ results' = <<>>
    /\ gender_filtered' = TRUE
    /\ status' = 0
    /\ detail' = "none"
    /\ tier_log' = <<>>
    /\ prev_results' = <<>>
    /\ UNCHANGED << catalog_vars, calc, service_vars >>

\* lines 304-358: an attempt that gets the AI service's answer and breaks out
\* of the loop; the loop variable is not read again
AiAttemptOk(data) ==
    /\ pc = "ai"
    /\ attempt < max_retries
    /\ attempt' = 0
    /\ ai_data' = data
    /\ search_path' = data.path
    /\ bert_vec' = data.bert
    /\ clip_vec' = data.clip
    /\ search_strategy' = data.strategy
    /\ pc' = "caseA"
    /\ UNCHANGED << handler, req, results, gender_filtered, status,
                    detail, tier_log, prev_results >>
    /\ UNCHANGED << catalog_vars, calc, service_vars >>

\* lines 360-365: an attempt that raises (timeout, connection error, status
\* >= 400), after /determine-path gave path
AiAttemptFailsOnce(path) ==
    /\ pc = "ai"
    /\ attempt < max_retries
    /\ search_path' = path
    /\ attempt' = attempt + 1
    /\ search_strategy' = "KEYWORD_FALLBACK"
    /\ pc' = "caseA"
    /\ UNCHANGED << handler, req, ai_data, bert_vec, clip_vec, results,
                    gender_filtered, status, detail, tier_log, prev_results >>
    /\ UNCHANGED << catalog_vars, calc, service_vars >>

AiAttemptFails(path) ==
    /\ pc = "ai"
    /\ attempt < max_retries
    /\ search_path' = path
    /\ attempt' = attempt + 1
    /\ search_strategy' =
          IF attempt = max_retries - 1 THEN "KEYWORD_FALLBACK" ELSE search_strategy
    /\ pc' = IF attempt + 1 < max_retries THEN "ai" ELSE "caseA"
    /\ UNCHANGED << handler, req, ai_data, bert_vec, clip_vec, results,
                    gender_filtered, status, detail, tier_log, prev_results >>
    /\ UNCHANGED << catalog_vars, calc, service_vars >>

\* Case A is entered on the external path with a 512-vector
CaseACondition == search_path = "EXTERNAL" /\ IsVector(clip_vec, ClipDim)

\* lines 372-397
CaseA ==
    /\ pc = "caseA"
    /\ pc' = "caseB"
    /\ IF CaseACondition
       THEN \E c \in search_by_clip_vector(clip_vec, req.limit, target_gender, "full", {}) :
              IF c.results # <<>>
              THEN /\ results' = c.results
                   /\ search_strategy' = "CLIP_VISUAL_SEARCH"
                   /\ tier_log' = tier_log \o Tagged("clip", c.queries)
              ELSE IF IsVector(bert_vec, TextDim)
                   THEN \E h \in search_hybrid(bert_vec, NoVec, req.limit, target_gender) :
                          /\ results' = h.results
                          /\ search_strategy' = "BERT_FALLBACK"
                          /\ tier_log' = tier_log \o Tagged("clip", c.queries)
                                                  \o Tagged("hybrid", h.queries)
                   ELSE /\ results' = c.results
                        /\ tier_log' = tier_log \o Tagged("clip", c.queries)
                        /\ UNCHANGED search_strategy
       ELSE UNCHANGED << results, search_strategy, tier_log >>
    /\ UNCHANGED << handler, req, attempt, ai_data, search_path, bert_vec,
                    clip_vec, gender_filtered, status, detail, prev_results >>
    /\ UNCHANGED << catalog_vars, calc, service_vars >>

\* Case B runs when Case A left no rows
CaseBAlways == TRUE

CaseBCondition == results = <<>>

\* the relaxed retry drops the gender filter
relaxed_filter_kept == target_gender

relaxed_filter_gender == NULL

\* lines 400-425
CaseB ==
    /\ pc = "caseB"
    /\ pc' = "caseC"
    /\ IF CaseBCondition
       THEN \E a \in search_smart_hybrid(core_keyword, bert_vec, req.limit, target_gender) :
              IF a.results # <<>>
              THEN /\ results' = a.results
                   /\ tier_log' = tier_log \o Tagged("smart", a.queries)
                   /\ UNCHANGED << search_strategy, gender_filtered >>
              ELSE \E r \in search_smart_hybrid(req.query, bert_vec, req.limit,
                                                  relaxed_filter_gender) :
                     /\ results' = r.results
                     /\ tier_log' = tier_log \o Tagged("smart", a.queries)
                                             \o Tagged("relaxed", r.queries)
                     /\ IF r.results # <<>>
                        THEN /\ search_strategy' = "RELAXED_SEARCH"
                             /\ gender_filtered' = FALSE
                        ELSE UNCHANGED << search_strategy, gender_filtered >>
       ELSE UNCHANGED << results, search_strategy, gender_filtered, tier_log >>
    /\ UNCHANGED << handler, req, attempt, ai_data, search_path, bert_vec,
                    clip_vec, status, detail, prev_results >>
    /\ UNCHANGED << catalog_vars, calc, service_vars >>

\* lines 427-458: the last resort, and the response
CaseC ==
    /\ pc = "caseC"
    /\ pc' = "done"
    /\ status' = 200
    /\ IF results = <<>>
       THEN \E rows \in get_multi(req.limit) :
              /\ results' = rows
              /\ search_strategy' = "FALLBACK_LATEST"
              /\ gender_filtered' = FALSE
              /\ tier_log' = tier_log \o Tagged("latest", <<Queried("LATEST", rows)>>)
       ELSE UNCHANGED << results, search_strategy, gender_filtered, tier_log >>
    /\ UNCHANGED << handler, req, attempt, ai_data, search_path, bert_vec,
                    clip_vec, detail, prev_results >>
    /\ UNCHANGED << catalog_vars, calc, service_vars >>

\* the queries Case A can issue, in order
CaseAQueries ==
    IF CaseACondition
    THEN UNION {
           IF c.results = <<>> /\ IsVector(bert_vec, TextDim)
           THEN { Tagged("clip", c.queries) \o Tagged("hybrid", h.queries) :
                  h \in search_hybrid(bert_vec, NoVec, req.limit, target_gender) }
           ELSE { Tagged("clip", c.queries) } :
           c \in search_by_clip_vector(clip_vec, req.limit, target_gender, "full", {}) }
    ELSE {}

\* the queries Case B can issue, in order
CaseBQueries ==
    IF CaseBCondition
    THEN UNION {
           IF a.results = <<>>
           THEN { Tagged("smart", a.queries) \o Tagged("relaxed", r.queries) :
                  r \in search_smart_hybrid(req.query, bert_vec, req.limit,
                                            relaxed_filter_gender) }
           ELSE { Tagged("smart", a.queries) } :
           a \in search_smart_hybrid(core_keyword, bert_vec, req.limit, target_gender) }
    ELSE {}

\* the query Case C can issue
CaseCQueries ==
    IF results = <<>>
    THEN { Tagged("latest", <<Queried("LATEST", rows)>>) : rows \in get_multi(req.limit) }
    ELSE {}

StageQueries ==
    IF pc = "caseA" THEN CaseAQueries
    ELSE IF pc = "caseB" THEN CaseBQueries
    ELSE IF pc = "caseC" THEN CaseCQueries
    ELSE {}

\* an error that is swallowed: the request goes on with the last resort
AfterDbFailureGoOn == "caseC"

\* lines 433-436: the exception leaves the handler as HTTP 500
AfterDbFailure == "done"

\* a query of the stage raises, the queries before it having been answered
DbFailure ==
    /\ handler = "ai_search"
    /\ \E queries \in StageQueries, k \in 0..MaxLogged :
          /\ k < Len(queries)
          /\ tier_log' = tier_log \o SubSeq(queries, 1, k)
    /\ pc' = AfterDbFailure
    /\ status' = 500
    /\ detail' = "Database Search Failed"
    /\ results' = <<>>
    /\ UNCHANGED << handler, req, attempt, ai_data, search_path, bert_vec,
                    clip_vec, search_strategy, gender_filtered, prev_results >>
    /\ UNCHANGED << catalog_vars, calc, service_vars >>

\* the same request once more, the AI service answering as before
RepeatSearch ==
    /\ pc = "done"
    /\ handler = "ai_search"
    /\ status = 200
    /\ ~req.rerun
    /\ req' = [req EXCEPT !.rerun = TRUE]
    /\ prev_results' = results
    /\ results' = <<>>
    /\ gender_filtered' = TRUE
    /\ search_strategy' =
          IF ai_data = NoData THEN "KEYWORD_FALLBACK" ELSE ai_data.strategy
    /\ tier_log' = <<>>
    /\ status' = 0
    /\ pc' = "caseA"
    /\ UNCHANGED << handler, attempt, ai_data, search_path, bert_vec, clip_vec,
                    detail >>
    /\ UNCHANGED << catalog_vars, calc, service_vars >>

(***************************************************************************)
(* POST /search-by-clip                                                    *)
(***************************************************************************)
\* lines 156-166
target_categories(target) ==
    IF target = "upper" THEN {TOPS, OUTERWEAR, DRESSES}
    ELSE IF target = "lower" THEN {BOTTOMS}
    ELSE {}

\* search_by_clip_image; query <<>> stands for None; the two AI endpoints
\* answer fashion and standard, or the call raises
search_by_clip_image(query, target, limit, fashion, standard, raised) ==
    LET gender   == IF query # <<>> THEN detect_gender_intent(query) ELSE NULL
        clip_res == IF fashion.code # 200 THEN standard ELSE fashion
        failure  == IF raised THEN "exception"
                    ELSE IF clip_res.code # 200 THEN "CLIP vector generation failed"
                    ELSE IF ~IsVector(clip_res.vector, ClipDim) THEN "invalid CLIP vector"
                    ELSE "none"
    IN  /\ Quiet
        /\ pc' = "done"
        /\ handler' = "search_by_clip"
        /\ req' = [query |-> query, limit |-> limit, target |-> target, rerun |-> FALSE]
        /\ IF failure # "none"
           THEN /\ status' = 500
                /\ detail' = failure
                /\ results' = <<>>
                /\ tier_log' = <<>>
                /\ search_strategy' = "NONE"
           ELSE \E c \in search_by_clip_vector(clip_res.vector, limit, gender, target,
                                               target_categories(target)) :
                  /\ status' = 200
                  /\ detail' = "none"
                  /\ results' = c.results
                  /\ tier_log' = Tagged("clip", c.queries)
                  /\ search_strategy' = "CLIP_IMAGE_SIMILARITY"
        /\ attempt' = 0
        /\ ai_data' = NoData
        /\ search_path' = "INTERNAL"
        /\ bert_vec' = NoVec
        /\ clip_vec' = IF failure = "none" THEN clip_res.vector ELSE NoVec
        /\ gender_filtered' = TRUE
        /\ prev_results' = <<>>
        /\ UNCHANGED << catalog_vars, calc, service_vars >>

Next ==
    \/ Budget(MaxWrites) /\ \E d \in CreateInputs : CreateProduct(d)
    \/ Budget(MaxWrites) /\ \E i \in Ids : UpdateProduct(i, [is_active |-> FALSE])
    \/ Budget(MaxWrites) /\ \E i \in Ids : soft_delete(i)
    \/ Budget(MaxWrites) /\ \E i \in Ids : hard_delete(i)
    \/ \E q \in Queries, n \in Limits : BeginAiSearch(q, n)
    \/ \E d \in AiResponses : AiAttemptOk(d)
    \/ \E path \in {"INTERNAL", "EXTERNAL"} : AiAttemptFails(path)
    \/ CaseA
    \/ CaseB
    \/ CaseC
    \/ DbFailure
    \/ RepeatSearch
    \/ Respond
    \/ \E q \in {<<>>, QueryMenShirt}, t \in {"full", "upper", "lower"},
          n \in Limits, f \in ClipAnswers, st \in ClipAnswers, raised \in BOOLEAN :
          search_by_clip_image(q, t, n, f, st, raised)

Spec == Init /\ [][Next]_vars

(***************************************************************************)
(* Properties of the search                                                *)
(***************************************************************************)
\* ai_search has answered with success
AiSearchDone == pc = "done" /\ handler = "ai_search" /\ status = 200

RowIds(rows) == [k \in DOMAIN rows |-> rows[k].id]

RECURSIVE TotalFound(_)
TotalFound(log) == IF log = <<>> THEN 0 ELSE Head(log).found + TotalFound(Tail(log))

\* the possible answers of the keyword tier (step 1 of search_smart_hybrid
\* on the core keyword, under the detected gender) for the request
KeywordTierRows ==
    IF core_keyword # <<>> /\ Len(Strip(core_keyword)) >= 1
    THEN { acc.results :
           acc \in KeywordLoop(_extract_keywords(core_keyword),
                               [results |-> <<>>, queries |-> <<>>],
                               bert_vec, req.limit, target_gender) }
    ELSE {<<>>}

KeywordTierYields == \E rows \in KeywordTierRows : rows # <<>>

\* C1: the rows of a response, of /ai-search and of /search-by-clip alike,
\* never hold one product id twice.
C1_NoDuplicateIds ==
    \A i, j \in DOMAIN results : i # j => results[i].id # results[j].id

\* a response whose queries found more rows than it holds: a product found
\* a second time was left out
C1_Witness ==
    /\ pc = "done"
    /\ results # <<>>
    /\ TotalFound(tier_log) > Len(results)

\* C2: with a gender G detected, a response flagged gender_filter_applied
\* holds only products of gender G, Unisex or NULL; and the filter is
\* inclusive: when a 768-dim text vector was received and the response is
\* flagged as unfiltered, no live product with a text vector has gender G,
\* Unisex or NULL (else the filtered text-vector tier had returned it).
C2_GenderFilter ==
    (AiSearchDone /\ target_gender # NULL) =>
        /\ gender_filtered =>
              \A k \in DOMAIN results :
                  products[results[k].id].gender \in {target_gender, "Unisex", NULL}
        /\ (~gender_filtered /\ IsVector(bert_vec, TextDim)) =>
              ~ \E i \in Ids : /\ IsLive(products[i])
                               /\ products[i].embedding # NoVec
                               /\ products[i].gender \in {target_gender, "Unisex", NULL}

\* a filtered response that holds a Unisex product while a live product of
\* the other gender is left out
C2_Witness ==
    /\ AiSearchDone
    /\ target_gender # NULL
    /\ gender_filtered
    /\ \E k \in DOMAIN results : products[results[k].id].gender = "Unisex"
    /\ \E i \in Ids : /\ IsLive(products[i])
                      /\ products[i].gender \notin {target_gender, "Unisex", NULL}
                      /\ i \notin Range(RowIds(results))

\* C3: no response holds a product that is soft-deleted or inactive.
C3_OnlyLiveProducts ==
    pc = "done" => \A k \in DOMAIN results : IsLive(products[results[k].id])

CaseAEmpty ==
    \A k \in DOMAIN tier_log :
        tier_log[k].call \in {"clip", "hybrid"} => tier_log[k].found = 0

C5_TiersSequential ==
    /\ \A i, j \in DOMAIN tier_log :
          (i < j /\ << tier_log[i].call, tier_log[i].tier >>
                      # << tier_log[j].call, tier_log[j].tier >>)
              => tier_log[i].found = 0
    /\ \A a, b \in DOMAIN results : results[a].tier = results[b].tier
    /\ (pc = "done" /\ results # <<>>) =>
          /\ tier_log # <<>>
          /\ results[1].tier = tier_log[Len(tier_log)].tier

\* a response of the relaxed retry, reached through the empty tiers before it
C5_Witness ==
    /\ AiSearchDone
    /\ results # <<>>
    /\ \E i, j \in DOMAIN tier_log :
          /\ i < j
          /\ tier_log[i].call = "smart" /\ tier_log[i].tier = "TEXT_VECTOR"
          /\ tier_log[j].call = "relaxed" /\ tier_log[j].found > 0

\* C6: a failure of the AI service never fails the request.
C6_AiFailureNeverFails ==
    (pc = "done" /\ detail # "Database Search Failed") => status = 200

\* C7: the final fallback answers with the most recently created live
\* products, newest first, at most limit of them, flagged as unfiltered.
C7_FallbackLatest ==
    (AiSearchDone /\ search_strategy = "FALLBACK_LATEST") =>
        /\ Len(results) <= req.limit
        /\ ~gender_filtered
        /\ \A k \in DOMAIN results : IsLive(products[results[k].id])
        /\ \A a, b \in DOMAIN results :
              a < b => products[results[a].id].created_at
                          >= products[results[b].id].created_at
        /\ \A i \in Ids :
              (IsLive(products[i]) /\ i \notin Range(RowIds(results))) =>
                  /\ Len(results) = req.limit
                  /\ \A k \in DOMAIN results :
                        products[results[k].id].created_at >= products[i].created_at

\* a gender is detected, no live product passes its filter, and a live
\* product of the other gender exists
OnlyOtherGender ==
    /\ AiSearchDone
    /\ target_gender # NULL
    /\ ~ \E i \in Ids : /\ IsLive(products[i])
                        /\ products[i].gender \in {target_gender, "Unisex", NULL}
    /\ \E i \in Ids : IsLive(products[i])

RelaxedAnswer ==
    /\ search_strategy = "RELAXED_SEARCH"
    /\ ~gender_filtered
    /\ results # <<>>
    /\ \A k \in DOMAIN results : IsLive(products[results[k].id])
    /\ tier_log[Len(tier_log)].call = "relaxed"

RelaxedCanFind ==
    IF IsVector(bert_vec, TextDim)
    THEN \E i \in Ids : IsLive(products[i]) /\ products[i].embedding # NoVec
    ELSE \E i \in Ids, k \in DOMAIN _extract_keywords(req.query) :
            /\ IsLive(products[i])
            /\ KeywordMatch(products[i], _extract_keywords(req.query)[k])

C9_Deterministic ==
    (AiSearchDone /\ req.rerun) => RowIds(results) = RowIds(prev_results)
(***************************************************************************)
(* The write paths of the product table                                    *)
(***************************************************************************)
\* vectors of a wrong length, as an AI answer or a caller may hand them in
LongText == <<Run(1, 1), Run(0, TextDim)>>
LongClip == <<Run(1, 1), Run(0, ClipDim)>>

IMG == "http://img/1.jpg"
PLACEHOLD == "https://placehold.co/1.jpg"

\* image_url NOT LIKE '%placehold%'
NotLikePlacehold(image_url) == image_url # PLACEHOLD

DESC == <<"meot", "jin", " ", "ot">>
\* the description the upload leaves when the analysis failed
AnalysisFailed == <<"AI", " ", "bun", "seok", " ", "sil", "pae">>

StoreCreateInputs ==
    { [name |-> SHIRT, category |-> TOPS, description |-> DESC,
       image_url |-> IMG, embedding |-> TextA, embedding_clip |-> ClipA,
       embedding_clip_upper |-> ClipA, embedding_clip_lower |-> ClipB],
      [name |-> SHIRT, category |-> TOPS, description |-> AnalysisFailed,
       image_url |-> IMG, embedding |-> ShortVec, embedding_clip |-> ShortVec],
      [name |-> PANTS, category |-> BOTTOMS, image_url |-> PLACEHOLD,
       embedding |-> LongText, embedding_clip_upper |-> LongClip],
      [name |-> PANTS, category |-> BOTTOMS, image_url |-> IMG,
       embedding |-> <<>>, embedding_clip |-> NoVec] }

StoreUpdateInputs ==
    { [embedding |-> ShortVec],
      [embedding |-> LongText, description |-> DESC],
      [embedding_clip |-> ShortVec],
      [embedding_clip_lower |-> LongClip, is_active |-> FALSE],
      [embedding_clip |-> ClipB] }

\* the answers of /llm-generate-response and /embed-text to a healing
LlmAnswers == { [code |-> 200, answer |-> DESC], [code |-> 500, answer |-> NoText] }

EmbedAnswers ==
    { [code |-> 200, vector |-> TextB],
      [code |-> 200, vector |-> ShortVec],
      [code |-> 200, vector |-> LongText],
      [code |-> 200, vector |-> <<>>],
      [code |-> 500, vector |-> <<>>] }

\* `not product.description`
NoDescription(description) == description = NoText \/ description = <<>>

\* _heal_product_embedding
\* a check that takes every product for broken
is_broken_always(product) == TRUE

is_broken(product) ==
    \/ product.embedding = NoVec
    \/ product.embedding = <<>>
    \/ product.description = AnalysisFailed
    \/ NoDescription(product.description)

new_description(product, llm) ==
    IF (NoDescription(product.description) \/ product.description = AnalysisFailed)
       /\ llm.code = 200
    THEN llm.answer
    ELSE product.description

new_vector(product, embed) ==
    IF embed.code = 200 THEN embed.vector ELSE product.embedding

heal_update_data(product, llm, embed) ==
    IF new_description(product, llm) # product.description
    THEN [embedding |-> new_vector(product, embed),
          description |-> new_description(product, llm)]
    ELSE [embedding |-> new_vector(product, embed)]

\* the row _heal_product_embedding leaves: the product's own when it is not
\* broken, when no vector came back, or when the update fails
heal_result(product, llm, embed) ==
    IF ~is_broken(product) \/ Falsy(new_vector(product, embed))
    THEN product
    ELSE LET row == update(product, heal_update_data(product, llm, embed))
         IN  IF RowAccepted(row) THEN row ELSE product

\* the calls of the AI service a healing makes: /llm-generate-response for a
\* missing or failed description, then /embed-text
ai_calls(product) ==
    IF ~is_broken(product) THEN 0
    ELSE IF NoDescription(product.description) \/ product.description = AnalysisFailed
         THEN 2 ELSE 1

_heal_product_embedding(product_id, llm, embed) ==
    /\ Quiet
    /\ product_id \in get(product_id)
    /\ is_broken(products[product_id])
    /\ products' = WithRow(product_id, heal_result(products[product_id], llm, embed))
    /\ writes' = writes + 1
    /\ UNCHANGED << next_id, now >>
    /\ UNCHANGED << request_vars, calc, service_vars >>

\* the answers the regeneration script gets for one product: the image
\* download and the three calls of /generate-fashion-clip-vector
ClipOk(vec) == [code |-> 200, vector |-> vec]
ClipDown == [code |-> 503, vector |-> <<>>]

RegenAnswers ==
    { [img |-> 200, full |-> ClipOk(ClipA), upper |-> ClipOk(ClipA), lower |-> ClipOk(ClipB)],
      [img |-> 404, full |-> ClipOk(ClipA), upper |-> ClipOk(ClipA), lower |-> ClipOk(ClipB)],
      [img |-> 200, full |-> ClipOk(ClipB), upper |-> ClipOk(ShortVec), lower |-> ClipOk(ClipB)],
      [img |-> 200, full |-> ClipDown, upper |-> ClipOk(ClipB), lower |-> ClipOk(<<>>)] }

\* the products the script selects
NeedsVectors ==
    { i \in Ids : /\ products[i].embedding_clip_upper = NoVec
                  /\ products[i].image_url # NULL
                  /\ NotLikePlacehold(products[i].image_url)
                  /\ products[i].deleted_at = NoTime }

\* res.json().get("vector", []) if res.status_code == 200 else None, then
\* str(vector) if vector else None
Param(res) == IF res.code = 200 /\ ~Falsy(res.vector) THEN res.vector ELSE NoVec

Regenerated(row, ans) ==
    [row EXCEPT !.embedding_clip = Param(ans.full),
                !.embedding_clip_upper = Param(ans.upper),
                !.embedding_clip_lower = Param(ans.lower)]

\* the script's UPDATE of one product; an error leaves the row as it was
RegeneratedRow(row, ans) ==
    IF ans.img = 200 /\ RowAccepted(Regenerated(row, ans))
    THEN Regenerated(row, ans)
    ELSE row

regenerate_vectors(answers) ==
    /\ Quiet
    /\ NeedsVectors # {}
    /\ products' = [i \in Ids |->
                      IF i \in NeedsVectors
                      THEN RegeneratedRow(products[i], answers[i])
                      ELSE products[i]]
    /\ writes' = writes + 1
    /\ UNCHANGED << next_id, now >>
    /\ UNCHANGED << request_vars, calc, service_vars >>

\* the most write operations of a run of the write paths alone
MaxStoreWrites == 3

NextStore ==
    \/ Budget(MaxStoreWrites) /\ \E d \in StoreCreateInputs : CreateProduct(d)
    \/ Budget(MaxStoreWrites) /\ \E i \in Ids, d \in StoreUpdateInputs : UpdateProduct(i, d)
    \/ Budget(MaxStoreWrites) /\ \E i \in Ids : soft_delete(i)
    \/ Budget(MaxStoreWrites) /\ \E i \in Ids, llm \in LlmAnswers, embed \in EmbedAnswers :
          _heal_product_embedding(i, llm, embed)
    \/ Budget(MaxStoreWrites) /\ \E answers \in [NeedsVectors -> RegenAnswers] :
          regenerate_vectors(answers)

SpecStore == Init /\ [][NextStore]_vars

DimOk(vec, dim) == vec = NoVec \/ VLen(vec) = dim

\* C10: after any sequence of creates, updates, healings and vector
\* regenerations, every stored vector that is present has its declared
\* length: 768 for embedding, 512 for each of the three CLIP vectors.
C10_StoredVectorDims ==
    \A i \in Ids :
        /\ DimOk(products[i].embedding, TextDim)
        /\ DimOk(products[i].embedding_clip, ClipDim)
        /\ DimOk(products[i].embedding_clip_upper, ClipDim)
        /\ DimOk(products[i].embedding_clip_lower, ClipDim)

\* a short text vector was stored padded and a long one cut, each to 768
C10_Witness ==
    /\ \E i \in Ids : products[i].embedding = <<Run(1, 3), Run(0, TextDim - 3)>>
    /\ \E i \in Ids : products[i].embedding = <<Run(1, 1), Run(0, TextDim - 1)>>

(***************************************************************************)
(* Functions studied on their own: the arguments are drawn by the initial  *)
(* state, the action applies the function                                  *)
(***************************************************************************)
Applied == "out" \in DOMAIN calc

\* vector[i - 1]
RECURSIVE At(_, _)
At(vec, i) == IF i <= Head(vec).n THEN Head(vec).v ELSE At(Tail(vec), i - Head(vec).n)

\* admin.py: _ensure_vector_dim
_ensure_vector_dim(vector, dim) ==
    IF Falsy(vector) \/ VLen(vector) = 0 THEN Zeros(dim)
    ELSE IF VLen(vector) = dim THEN vector
    ELSE IF VLen(vector) < dim
         THEN Norm(vector \o <<Run(0, dim - VLen(vector))>>)
         ELSE Norm(Take(vector, dim))

\* the entries and the lengths of the vectors handed to a repair
RepairValues == {0, 1, 2}
RepairLengths ==
    {1, 2, ClipDim - 1, ClipDim, ClipDim + 1, TextDim - 1, TextDim, TextDim + 1}

RepairVectors ==
    {NoVec, <<>>}
    \cup { <<Run(a, m)>> : a \in RepairValues, m \in RepairLengths }
    \cup { <<Run(ab[1], m), Run(ab[2], k)>> :
             ab \in {p \in RepairValues \X RepairValues : p[1] # p[2]},
             m \in {1, 2, ClipDim}, k \in RepairLengths }

RepairInputs ==
    { [op |-> f, vector |-> v, dim |-> d] :
        f \in {"_validate_vector", "_ensure_vector_dim"},
        v \in RepairVectors, d \in {TextDim, ClipDim} }

InitRepair == InitState /\ calc \in RepairInputs

ApplyValidateVector ==
    /\ calc.op = "_validate_vector"
    /\ ~Applied
    /\ calc' = [op |-> calc.op, vector |-> calc.vector, dim |-> calc.dim,
                out |-> _validate_vector(calc.vector, calc.dim)]
    /\ UNCHANGED << catalog_vars, request_vars, service_vars >>

ApplyEnsureVectorDim ==
    /\ calc.op = "_ensure_vector_dim"
    /\ ~Applied
    /\ calc' = [op |-> calc.op, vector |-> calc.vector, dim |-> calc.dim,
                out |-> _ensure_vector_dim(calc.vector, calc.dim)]
    /\ UNCHANGED << catalog_vars, request_vars, service_vars >>

NextRepair == ApplyValidateVector \/ ApplyEnsureVectorDim

SpecRepair == InitRepair /\ [][NextRepair]_vars

Repaired == calc.op \in {"_validate_vector", "_ensure_vector_dim"} /\ Applied

\* C11: a repair to N entries gives exactly N entries: those of the vector
\* given, in order, as far as it has any, then zeros; an empty or absent
\* vector gives N zeros and a vector of N entries is given back as it is.
C11_VectorRepair ==
    Repaired =>
        /\ VLen(calc.out) = calc.dim
        /\ \A i \in 1..calc.dim :
              At(calc.out, i) =
                  IF ~Falsy(calc.vector) /\ i <= VLen(calc.vector)
                  THEN At(calc.vector, i) ELSE 0
        /\ (~Falsy(calc.vector) /\ VLen(calc.vector) = calc.dim) => calc.out = calc.vector

\* a vector one entry too long, whose last entry is not zero, was cut by
\* CRUDProduct._validate_vector
C11_Witness ==
    /\ Repaired
    /\ calc.op = "_validate_vector"
    /\ calc.vector = <<Run(1, 1), Run(2, TextDim)>>
    /\ calc.dim = TextDim
    /\ calc.out = <<Run(1, 1), Run(2, TextDim - 1)>>

(***************************************************************************)
(* The similarity score                                                    *)
(***************************************************************************)
\* a distance handed to _distance_to_similarity is counted in units of
\* 1/FineUnit, ten times finer than the four decimals the score keeps
FineUnit == 10 * DistUnit

\* round(similarity, 4), the similarity in units of 1/FineUnit and the score
\* in units of 1/DistUnit: the nearest one; at a half the float behind the
\* similarity decides, to either side
Round4(similarity) ==
    IF similarity % 10 < 5 THEN {similarity \div 10}
    ELSE IF similarity % 10 > 5 THEN {similarity \div 10 + 1}
    ELSE {similarity \div 10, similarity \div 10 + 1}

\* a conversion that does not clamp
_distance_to_similarity_unclamped(distance) ==
    IF distance = NaN THEN {DistUnit}
    ELSE Round4(FineUnit - distance)

\* CRUDProduct._distance_to_similarity: the scores it can return; with NaN,
\* min(1.0, nan) is 1.0 in Python
_distance_to_similarity(distance) ==
    IF distance = NaN THEN {DistUnit}
    ELSE Round4(Max(0, Min(FineUnit, FineUnit - distance)))

\* the distances tried: next to 0, 1/2, 1 and 2
MaxStep == 12
FineDistances ==
    UNION { {c + k : k \in 0..MaxStep} : c \in {0, FineUnit \div 2, FineUnit - 6} }
    \cup { 2 * FineUnit - k : k \in 0..MaxStep }

SimilarityInputs ==
    { [op |-> "_distance_to_similarity", d1 |-> p[1], d2 |-> p[2]] :
        p \in {q \in (FineDistances \cup {NaN}) \X FineDistances : q[1] < q[2]} }

InitSimilarity == InitState /\ calc \in SimilarityInputs

ApplyDistanceToSimilarity ==
    /\ calc.op = "_distance_to_similarity"
    /\ ~Applied
    /\ \E s1 \in _distance_to_similarity(calc.d1), s2 \in _distance_to_similarity(calc.d2) :
          calc' = [op |-> calc.op, d1 |-> calc.d1, d2 |-> calc.d2,
                   out |-> << s1, s2 >>]
    /\ UNCHANGED << catalog_vars, request_vars, service_vars >>

NextSimilarity == ApplyDistanceToSimilarity

SpecSimilarity == InitSimilarity /\ [][NextSimilarity]_vars

Scored ==
    /\ calc.op = "_distance_to_similarity"
    /\ Applied
    /\ calc.d1 # NaN

\* clamp(1 - d, 0, 1), in units of 1/FineUnit
Clamp(distance) == Max(0, Min(FineUnit, FineUnit - distance))

\* C12 as claimed: the score of a distance d in [0, 2] is clamp(1 - d, 0, 1),
\* lies in [0, 1], and does not grow with the distance.
C12_SimilarityIsClamp ==
    Scored =>
        /\ 10 * calc.out[1] = Clamp(calc.d1)
        /\ 10 * calc.out[2] = Clamp(calc.d2)
        /\ calc.out[1] \in 0..DistUnit /\ calc.out[2] \in 0..DistUnit
        /\ calc.out[1] >= calc.out[2]

\* C12 as amended: the score of a distance d in [0, 2] is clamp(1 - d, 0, 1)
\* rounded to four decimals (off by 0.00005 at most); it lies in [0, 1] and
\* does not grow with the distance.
C12_SimilarityIsRoundedClamp ==
    Scored =>
        /\ 10 * calc.out[1] - Clamp(calc.d1) \in (0 - 5)..5
        /\ 10 * calc.out[2] - Clamp(calc.d2) \in (0 - 5)..5
        /\ calc.out[1] \in 0..DistUnit /\ calc.out[2] \in 0..DistUnit
        /\ calc.out[1] >= calc.out[2]

\* a distance just above 1 scored 0 and a distance between two scores
\* rounded to the nearer one
C12_Witness ==
    /\ Scored
    /\ calc.d1 = 4 /\ calc.out[1] = DistUnit
    /\ calc.d2 = FineUnit + 3 /\ calc.out[2] = 0

(***************************************************************************)
(* Gender detection                                                        *)
(***************************************************************************)
\* the words queries are made of: the gender keywords, two of them
\* capitalised, and words that name no gender
GenderQueryWords ==
    MaleWords \cup FemaleWords
    \cup { <<"M", "e", "n">>, <<"W", "o", "m", "e", "n">>, <<"syeo", "cheu">>,
           <<"ot">>, <<"T", "o", "p", "s">> }

GenderQueries ==
    {<<>>} \cup GenderQueryWords
    \cup { w[1] \o w[2] : w \in GenderQueryWords \X GenderQueryWords }
    \cup { w[1] \o <<SP>> \o w[2] : w \in GenderQueryWords \X GenderQueryWords }

GenderInputs == { [op |-> "detect_gender_intent", query |-> q] : q \in GenderQueries }

InitGender == InitState /\ calc \in GenderInputs

ApplyDetectGenderIntent ==
    /\ calc.op = "detect_gender_intent"
    /\ ~Applied
    /\ calc' = [op |-> calc.op, query |-> calc.query,
                out |-> detect_gender_intent(calc.query)]
    /\ UNCHANGED << catalog_vars, request_vars, service_vars >>

NextGender == ApplyDetectGenderIntent

SpecGender == InitGender /\ [][NextGender]_vars

\* the places where a word of the set stands in the text
Hits(text, words) ==
    { << h[1], h[1] + Len(h[2]) - 1 >> :
        h \in {g \in (1..Len(text)) \X words : OccursAt(text, g[2], g[1])} }

\* a male keyword stands in the text, and not as a part of a female keyword
\* ("men" in "women", "male" in "female")
MaleKeywordIn(text) ==
    \E m \in Hits(text, MaleWords) :
        ~ \E f \in Hits(text, FemaleWords) : f[1] <= m[1] /\ m[2] <= f[2]

FemaleKeywordIn(text) == Hits(text, FemaleWords) # {}

\* C13: a query holding a male keyword is detected as Male, one holding a
\* female keyword ("women", "female", ...) and no male keyword as Female, one
\* holding neither, or empty, as no gender; upper and lower case alike.
C13_GenderDetection ==
    (calc.op = "detect_gender_intent" /\ Applied) =>
        calc.out = IF MaleKeywordIn(Lower(calc.query)) THEN "Male"
                   ELSE IF FemaleKeywordIn(Lower(calc.query)) THEN "Female"
                   ELSE NULL

(***************************************************************************)
(* More properties of the search                                           *)
(***************************************************************************)
\* the queries that use the text vector
TextVectorTiers == {"TEXT_VECTOR", "HYBRID_TEXT"}

\* C14: when the text vector received is the all-zero vector the embedding
\* service returns on failure, the request is served as one without a text
\* vector: no text-vector query is issued and keyword rows are ordered by
\* recency, carrying no distance.
C14_ZeroVectorIsNoVector ==
    (AiSearchDone /\ bert_vec = Zeros(TextDim)) =>
        /\ \A k \in DOMAIN tier_log : tier_log[k].tier \notin TextVectorTiers
        /\ \A k \in DOMAIN results : results[k].distance = NoDist

(***************************************************************************)
(* CRUDProduct.search_smart_hybrid on its own                              *)
(***************************************************************************)
BLACK_HOODIE == <<"beul", "laek", SP, "hu", "deu", "jip", "eop">>
BLACK_HOODIE_OVERFIT == BLACK_HOODIE \o <<SP, "o_", "beo", "pit">>
BLACK_TEE == <<"beul", "laek", SP, "ti", "syeo", "cheu">>
GREY_HOODIE == <<"geu", "re", "i_", SP, "hu", "deu", "jip", "eop">>

KeywordCreateInputs ==
    { [name |-> BLACK_HOODIE_OVERFIT, category |-> OUTERWEAR, embedding |-> TextB],
      [name |-> BLACK_TEE, category |-> TOPS, embedding |-> TextA],
      [name |-> GREY_HOODIE, category |-> OUTERWEAR, embedding |-> TextAB],
      [name |-> PANTS, category |-> BOTTOMS, embedding |-> TextA] }

\* a call of search_smart_hybrid with no gender filter: any of the answers
\* the database may give
ApplySearchSmartHybrid(query, bert_vector, limit) ==
    /\ Quiet
    /\ calc = NoCalc
    /\ \E acc \in search_smart_hybrid(query, bert_vector, limit, NULL) :
          calc' = [op |-> "search_smart_hybrid", query |-> query,
                   bert_vector |-> bert_vector, limit |-> limit,
                   out |-> acc.results]
    /\ UNCHANGED << catalog_vars, request_vars, service_vars >>

NextKeyword ==
    \/ Budget(MaxStoreWrites) /\ calc = NoCalc /\ \E d \in KeywordCreateInputs : CreateProduct(d)
    \/ Budget(MaxStoreWrites) /\ calc = NoCalc /\ \E i \in Ids : soft_delete(i)
    \/ \E bert_vector \in {NoVec, TextA}, limit \in Limits :
          ApplySearchSmartHybrid(BLACK_HOODIE, bert_vector, limit)

SpecKeyword == Init /\ [][NextKeyword]_vars

\* the live products whose name holds the whole query
ExactNameHits(query) ==
    { i \in Ids : IsLive(products[i]) /\ ILike(products[i].name, query) }

\* C15: when the query text stands in the name of a live product, the
\* keyword tier returns such a product as the first row.
C15_ExactNameHitFirst ==
    (calc.op = "search_smart_hybrid" /\ ExactNameHits(calc.query) # {}) =>
        /\ calc.out # <<>>
        /\ calc.out[1].id \in ExactNameHits(calc.query)

\* C16: with no live product in the catalog (an empty one, or one whose
\* products are all deleted or inactive) and the database answering, ai_search
\* responds with success and an empty product list.
C16_NoResultsIsSuccess ==
    (AiSearchDone /\ detail # "Database Search Failed"
                  /\ ~ \E i \in Ids : IsLive(products[i])) =>
        /\ status = 200
        /\ results = <<>>

DbFailed == handler = "ai_search" /\ detail = "Database Search Failed"

\* C17: when a query of ai_search fails the request ends with HTTP 500 and
\* no products, and the only step that follows is the response: no query,
\* the failed one or a later tier's, is issued after it.
C17_DbFailureEndsRequest ==
    /\ [](DbFailed => (pc = "done" /\ status = 500 /\ results = <<>>))
    /\ [][DbFailed => (pc' = "idle" /\ tier_log' = <<>>)]_vars

\* the text-vector query of the keyword stage failed after the keyword
\* queries had found nothing
C17_Witness ==
    /\ DbFailed
    /\ status = 500
    /\ tier_log # <<>>
    /\ \A k \in DOMAIN tier_log : tier_log[k].tier = "KEYWORD" /\ tier_log[k].found = 0
    /\ IsVector(bert_vec, TextDim)

\* the tier a strategy label stands for, as the call and the query that
\* produce the rows; a label the AI service chose, or KEYWORD_FALLBACK,
\* stands for the first tier the smart search tries, the keyword tier
LabelTiers(label) ==
    IF label = "CLIP_VISUAL_SEARCH" THEN {<< "clip", "VISUAL" >>}
    ELSE IF label = "BERT_FALLBACK" THEN {<< "hybrid", "HYBRID_TEXT" >>}
    ELSE IF label = "RELAXED_SEARCH"
         THEN {<< "relaxed", "KEYWORD" >>, << "relaxed", "TEXT_VECTOR" >>}
    ELSE IF label = "FALLBACK_LATEST" THEN {<< "latest", "LATEST" >>}
    ELSE {<< "smart", "KEYWORD" >>}

\* C18: the strategy label of a response tells the tier its products came
\* from: a label stands for one tier, and the rows of a response carrying it
\* were produced by that tier's query.
C18_LabelNamesTier ==
    (AiSearchDone /\ results # <<>>) =>
        << tier_log[Len(tier_log)].call, results[1].tier >> \in LabelTiers(search_strategy)

(***************************************************************************)
(* Self-healing, run twice                                                 *)
(***************************************************************************)
\* a read of a product heals it: the first run, its answers kept
HealOnRead(product_id, llm, embed) ==
    /\ Quiet
    /\ calc = NoCalc
    /\ product_id \in get(product_id)
    /\ products' = WithRow(product_id, heal_result(products[product_id], llm, embed))
    /\ calc' = [op |-> "_heal_product_embedding", product_id |-> product_id,
                llm |-> llm, embed |-> embed, run |-> 1,
                calls |-> ai_calls(products[product_id]),
                before |-> products[product_id],
                first |-> heal_result(products[product_id], llm, embed)]
    /\ UNCHANGED << next_id, now, writes, request_vars, service_vars >>

\* the second run, the AI service answering the same
HealAgain ==
    /\ Quiet
    /\ calc.op = "_heal_product_embedding"
    /\ calc.run = 1
    /\ products' = WithRow(calc.product_id,
                           heal_result(products[calc.product_id], calc.llm, calc.embed))
    /\ calc' = [calc EXCEPT !.run = 2]
    /\ UNCHANGED << next_id, now, writes, request_vars, service_vars >>

NextHeal ==
    \/ Budget(MaxWrites) /\ calc = NoCalc /\ \E d \in StoreCreateInputs : CreateProduct(d)
    \/ \E i \in Ids, llm \in LlmAnswers, embed \in EmbedAnswers : HealOnRead(i, llm, embed)
    \/ HealAgain

SpecHeal == Init /\ [][NextHeal]_vars

\* the product has a text vector and a description that is not the marker
Sound(product) ==
    /\ product.embedding # NoVec
    /\ product.embedding # <<>>
    /\ product.description # NoText
    /\ product.description # <<>>
    /\ product.description # AnalysisFailed

\* C19: a second healing with the same answers leaves the product as the
\* first left it, and a product that is not broken is left as it was, with
\* no call of the AI service.
C19_HealIdempotent ==
    calc.op = "_heal_product_embedding" =>
        /\ calc.run = 2 => products[calc.product_id] = calc.first
        /\ Sound(calc.before) => (calc.calls = 0 /\ calc.first = calc.before)

\* a broken product was healed by the first run (description and vector
\* written) and the second run has been made
C19_Witness ==
    /\ calc.op = "_heal_product_embedding"
    /\ calc.run = 2
    /\ calc.calls = 2
    /\ calc.first # calc.before
    /\ calc.first.description = DESC
    /\ calc.first.embedding = TextB

(***************************************************************************)
(* Uploads whose AI calls failed, and the reads that heal                  *)
(***************************************************************************)
\* the description an upload starts from and keeps when the analysis fails
AnalysisPending == <<"AI", " ", "bun", "seok", " ", "jung", ".", ".", ".">>

\* product_data of upload_product_image_auto and upload_products_csv: the
\* analysis and the embedding answered; the analysis and the embedding
\* failed; the embedding of a CSV row failed; /embed-text answered the zero
\* vector it gives on failure; and a row entered by hand with no vector
UploadInputs ==
    { [name |-> SHIRT, category |-> TOPS, gender |-> "Unisex", description |-> DESC,
       image_url |-> IMG, embedding |-> TextA, embedding_clip |-> ClipA,
       embedding_clip_upper |-> ClipA, embedding_clip_lower |-> ClipB],
      [name |-> SHIRT, category |-> TOPS, gender |-> "Unisex",
       description |-> AnalysisPending, image_url |-> IMG, embedding |-> NoVec,
       embedding_clip |-> NoVec, embedding_clip_upper |-> NoVec,
       embedding_clip_lower |-> NoVec],
      [name |-> PANTS, category |-> BOTTOMS, gender |-> "Unisex", description |-> DESC,
       image_url |-> IMG, embedding |-> NoVec],
      [name |-> PANTS, category |-> BOTTOMS, gender |-> "Unisex", description |-> DESC,
       image_url |-> IMG, embedding |-> Zeros(TextDim)],
      [name |-> PANTS, category |-> BOTTOMS, description |-> AnalysisFailed] }

\* a read of the product (detail, llm-query, recommendations): get, then heal
ReadProduct(product_id, llm, embed) ==
    /\ Quiet
    /\ product_id \in get(product_id)
    /\ products' = WithRow(product_id, heal_result(products[product_id], llm, embed))
    /\ UNCHANGED << next_id, now, writes, request_vars, calc, service_vars >>

\* the answers of a working AI service
LlmWorks == [code |-> 200, answer |-> DESC]
EmbedWorks == [code |-> 200, vector |-> TextB]

ReadWhileAiWorks(product_id) == ReadProduct(product_id, LlmWorks, EmbedWorks)

NextUpload ==
    \/ Budget(MaxStoreWrites) /\ \E d \in UploadInputs : CreateProduct(d)
    \/ \E i \in Ids, llm \in LlmAnswers, embed \in EmbedAnswers : ReadProduct(i, llm, embed)

\* every product keeps being read while the AI service works
SpecUpload ==
    /\ Init
    /\ [][NextUpload]_vars
    /\ \A i \in 1..MaxStoreWrites : WF_vars(ReadWhileAiWorks(i))

\* the product holds a text vector that is not the all-zero stand-in
RealVector(product) ==
    /\ product.embedding # NoVec
    /\ product.embedding # <<>>
    /\ product.embedding # Zeros(TextDim)

\* C20: a product stored without a usable text vector is, with the AI
\* service working and the product being read, eventually a product with a
\* real text vector.
C20_EventuallyHealed ==
    \A i \in 1..MaxStoreWrites :
        (i \in Ids /\ ~RealVector(products[i])) ~> (i \in Ids /\ RealVector(products[i]))

(***************************************************************************)
(* The keyword tier's answer, candidate by candidate                       *)
(***************************************************************************)
\* the products a keyword's query can return when no limit cuts it
KeywordHits(keyword, bert_vector) ==
    { rows[k].id : <<rows, k>> \in
        { rk \in KeywordQuery(keyword, bert_vector, Cardinality(Ids), NULL)
                  \X (1..Cardinality(Ids)) : rk[2] \in DOMAIN rk[1] } }

\* the candidates of the query, in the order the loop takes them
Candidates(query) ==
    IF query # <<>> /\ Len(Strip(query)) >= 1 THEN _extract_keywords(query) ELSE <<>>

\* the candidates that yield a match, in priority order
YieldingCandidates(query, bert_vector) ==
    SelectSeq(Candidates(query),
              LAMBDA keyword : Len(keyword) >= 1 /\ KeywordHits(keyword, bert_vector) # {})

SmartSearched == calc.op = "search_smart_hybrid"

\* C21: the keyword tier returns the matches of the first candidate that
\* yields any, and of no later candidate: every returned product is a match
\* of that first candidate.
C21_GreedyKeyword ==
    (SmartSearched /\ YieldingCandidates(calc.query, calc.bert_vector) # <<>>) =>
        \A k \in DOMAIN calc.out :
            calc.out[k].id \in
                KeywordHits(Head(YieldingCandidates(calc.query, calc.bert_vector)),
                            calc.bert_vector)

\* the answer came from the keyword tier
KeywordAnswer ==
    /\ SmartSearched
    /\ calc.out # <<>>
    /\ \A k \in DOMAIN calc.out : calc.out[k].tier = "KEYWORD"

\* C22: the list the keyword tier returns is ordered over its whole length:
\* by ascending text-vector distance when a valid 768-value text vector was
\* supplied, by descending creation time otherwise.
C22_KeywordListOrdered ==
    KeywordAnswer =>
        \A k \in DOMAIN calc.out : \A l \in DOMAIN calc.out :
            k < l =>
                IF IsVector(calc.bert_vector, TextDim)
                THEN SortKey(calc.out[k].distance) <= SortKey(calc.out[l].distance)
                ELSE products[calc.out[k].id].created_at
                        >= products[calc.out[l].id].created_at

\* C27: a call of search_smart_hybrid returns at most `limit` products.
C27_AtMostLimit ==
    SmartSearched => Len(calc.out) <= calc.limit

(***************************************************************************)
(* CRUDProduct.search_by_clip_vector on its own                            *)
(***************************************************************************)
\* products with a full-body vector only, with all three visual vectors,
\* and with a lower-body vector only
ClipCreateInputs ==
    { [name |-> SHIRT, category |-> TOPS, embedding_clip |-> ClipA],
      [name |-> SHIRT, category |-> TOPS, embedding_clip |-> ClipB,
       embedding_clip_upper |-> ClipA, embedding_clip_lower |-> ClipAB],
      [name |-> PANTS, category |-> BOTTOMS, embedding_clip_lower |-> ClipB] }

\* the visual vectors a caller passes: none, empty, too short, too long,
\* of 512 values, and 512 zeros
ClipQueryVectors == {NoVec, <<>>, ShortVec, LongClip, ClipA, Zeros(ClipDim)}

ClipTargets == {"full", "upper", "lower", "face"}

\* a call of search_by_clip_vector with no gender or category filter
ApplySearchByClipVector(clip_vector, limit, target) ==
    /\ Quiet
    /\ calc = NoCalc
    /\ \E acc \in search_by_clip_vector(clip_vector, limit, NULL, target, {}) :
          calc' = [op |-> "search_by_clip_vector", clip_vector |-> clip_vector,
                   limit |-> limit, target |-> target,
                   queries |-> Len(acc.queries), out |-> acc.results]
    /\ UNCHANGED << catalog_vars, request_vars, service_vars >>

NextClip ==
    \/ Budget(MaxStoreWrites) /\ calc = NoCalc /\ \E d \in ClipCreateInputs : CreateProduct(d)
    \/ Budget(MaxStoreWrites) /\ calc = NoCalc /\ \E i \in Ids : soft_delete(i)
    \/ \E clip_vector \in ClipQueryVectors, limit \in Limits, target \in ClipTargets :
          ApplySearchByClipVector(clip_vector, limit, target)

SpecClip == Init /\ [][NextClip]_vars

ClipSearched == calc.op = "search_by_clip_vector"

\* the column the target names
SelectedColumn(target) ==
    CASE target = "upper" -> "embedding_clip_upper"
      [] target = "lower" -> "embedding_clip_lower"
      [] OTHER -> "embedding_clip"

\* C23: the visual query runs only with a visual vector of exactly 512
\* values, and otherwise returns the empty list without a query; it compares
\* against the column the target selects (upper, lower, else full): every
\* returned product has a value in that column, and its distance is the one
\* to that column.
C23_ClipColumn ==
    ClipSearched =>
        IF VLen(calc.clip_vector) = ClipDim /\ calc.clip_vector # NoVec
        THEN /\ calc.queries = 1
             /\ \A k \in DOMAIN calc.out :
                  LET value == products[calc.out[k].id][SelectedColumn(calc.target)]
                  IN  /\ value # NoVec
                      /\ calc.out[k].distance = cosine_distance(value, calc.clip_vector)
        ELSE calc.queries = 0 /\ calc.out = <<>>

\* an upper-body query answered while a live product without an upper-body
\* vector is in the catalog
C23_Witness ==
    /\ ClipSearched
    /\ calc.target = "upper"
    /\ calc.out # <<>>
    /\ \E i \in Ids : IsLive(products[i]) /\ products[i].embedding_clip_upper = NoVec

(***************************************************************************)
(* The external evidence gatherer and what ai_search does with its answer  *)
(***************************************************************************)
\* how process_external_rag ends: with a reference image, or without one
GathererOutcomes ==
    {"image", "quota_exceeded", "no_search_results", "no_candidate", "exception"}

\* ModelEngine.generate_dual_embedding: the text's vectors of the text model
\* and of the CLIP text model, zeros for a model that is not loaded
DualEmbeddings ==
    { [bert |-> TextAB, clip |-> ClipAB],
      [bert |-> TextAB, clip |-> Zeros(ClipDim)],
      [bert |-> Zeros(TextDim), clip |-> Zeros(ClipDim)] }

\* AIOrchestrator.process_internal_search
process_internal_search(vectors) ==
    [vectors |-> vectors, search_path |-> "INTERNAL", strategy |-> "internal_text",
     ref_image |-> NULL]

\* AIOrchestrator.process_external_rag, and the except branch of
\* /process-external: every ending without a reference image answers with
\* the internal search
process_external_rag(outcome, vectors) ==
    IF outcome = "image"
    THEN [vectors |-> [bert |-> TextA, clip |-> ClipA], search_path |-> "EXTERNAL",
          strategy |-> "visual_rag_vlm", ref_image |-> IMG]
    ELSE process_internal_search(vectors)

\* str.upper() of the strategies the orchestrator names
Upper(strategy) ==
    CASE strategy = "internal_text" -> "INTERNAL_TEXT"
      [] strategy = "visual_rag_vlm" -> "VISUAL_RAG_VLM"
      [] OTHER -> strategy

\* what ai_search keeps of an answer: the path is the one /determine-path
\* gave, the vectors and the strategy are the answer's
Extracted(path, answer) ==
    [path |-> path, bert |-> answer.vectors.bert, clip |-> answer.vectors.clip,
     strategy |-> Upper(answer.strategy), ref_image |-> answer.ref_image]

\* an attempt on the external path: /determine-path answers EXTERNAL and
\* /process-external answers
ExternalAttemptOk(outcome, vectors) ==
    AiAttemptOk(Extracted("EXTERNAL", process_external_rag(outcome, vectors)))

\* an attempt on the internal path
InternalAttemptOk(vectors) ==
    AiAttemptOk(Extracted("INTERNAL", process_internal_search(vectors)))

NextEvidence ==
    \/ Budget(MaxWrites) /\ \E d \in CreateInputs : CreateProduct(d)
    \/ \E q \in Queries, n \in Limits : BeginAiSearch(q, n)
    \/ \E outcome \in GathererOutcomes, vectors \in DualEmbeddings :
          ExternalAttemptOk(outcome, vectors)
    \/ \E vectors \in DualEmbeddings : InternalAttemptOk(vectors)
    \/ CaseA
    \/ CaseB
    \/ CaseC
    \/ Respond

SpecEvidence == Init /\ [][NextEvidence]_vars

\* the gatherer was asked and gave no reference image
NoReferenceImage ==
    /\ handler = "ai_search"
    /\ search_path = "EXTERNAL"
    /\ "ref_image" \in DOMAIN ai_data
    /\ ai_data.ref_image = NULL

\* C24: when the evidence gatherer gives no reference image the request has
\* no visual vector and no query of the visual-vector tier is issued.
C24_NoImageNoVisualTier ==
    (AiSearchDone /\ NoReferenceImage) =>
        /\ ~IsVector(clip_vec, ClipDim)
        /\ \A k \in DOMAIN tier_log : tier_log[k].tier # "VISUAL"

\* a step of the retry loop that calls the AI service again
CallsAgain == pc = "ai" /\ pc' = "ai"

\* a step that leaves the retry loop for the database search
LeavesLoop == pc = "ai" /\ pc' # "ai"

\* C25: ai_search calls the AI service in at most 3 attempts.  The loop is
\* entered only by a new request; the service is called again only after a
\* failed attempt, while fewer than 3 have failed; the loop is left on the
\* first answer, or after the third failure with the marker KEYWORD_FALLBACK;
\* no step of the database search returns to it.
C25_RetryBudget ==
    /\ [](pc = "ai" => attempt < max_retries)
    /\ [][ /\ (pc # "ai" /\ pc' = "ai") => (pc = "idle" /\ attempt' = 0)
           /\ CallsAgain => /\ ai_data' = NoData
                            /\ attempt' = attempt + 1
           /\ LeavesLoop => /\ pc' = "caseA"
                            /\ \/ ai_data' # NoData
                               \/ /\ attempt' = max_retries
                                  /\ search_strategy' = "KEYWORD_FALLBACK" ]_vars

\* the third attempt failed and the database search is about to start
C25_Witness ==
    /\ handler = "ai_search"
    /\ pc = "caseA"
    /\ ai_data = NoData
    /\ attempt = max_retries
    /\ search_strategy = "KEYWORD_FALLBACK"
    /\ tier_log = <<>>

(***************************************************************************)
(* The image downloads of the external evidence gatherer                   *)
(***************************************************************************)
\* the most search results of one request
MaxResults == 6

\* how a download ends: with the image, or with None
DownloadOutcomes == {"image", "too_small", "status_not_200", "exception", "timeout"}

\* Semaphore.acquire goes on at once when a slot is free
SlotFreeAlways(value) == TRUE

SlotFree(value) == value > 0

\* process_external_rag, lines 140-142: one _download_image task per search
\* result, all awaited together
StartGather(r, n) ==
    /\ downloads[r] = NoGather
    /\ downloads' = [downloads EXCEPT ![r] = [results |-> n, waiting |-> n, in_flight |-> 0]]
    /\ UNCHANGED << semaphore, cache, engine, catalog_vars, request_vars, calc >>

\* _download_image, line 40: a task enters `async with self.semaphore`
AcquireSlot(r) ==
    /\ downloads[r].waiting > 0
    /\ SlotFree(semaphore)
    /\ semaphore' = semaphore - 1
    /\ UNCHANGED << cache, engine >>
    /\ downloads' = [downloads EXCEPT ![r].waiting = @ - 1, ![r].in_flight = @ + 1]
    /\ UNCHANGED << catalog_vars, request_vars, calc >>

\* _download_image, lines 41-56: the download returns the image or None and
\* leaves the `async with`, which releases the slot
DownloadEnds(r, outcome) ==
    /\ downloads[r].in_flight > 0
    /\ semaphore' = semaphore + 1
    /\ UNCHANGED << cache, engine >>
    /\ downloads' = [downloads EXCEPT ![r].in_flight = @ - 1]
    /\ UNCHANGED << catalog_vars, request_vars, calc >>

\* asyncio.gather returns when every task has returned
GatherReturns(r) ==
    /\ downloads[r].results > 0
    /\ downloads[r].waiting = 0
    /\ downloads[r].in_flight = 0
    /\ downloads' = [downloads EXCEPT ![r] = NoGather]
    /\ UNCHANGED << semaphore, cache, engine, catalog_vars, request_vars, calc >>

NextDownload ==
    \/ \E r \in Gathers, n \in 1..MaxResults : StartGather(r, n)
    \/ \E r \in Gathers : AcquireSlot(r)
    \/ \E r \in Gathers, outcome \in DownloadOutcomes : DownloadEnds(r, outcome)
    \/ \E r \in Gathers : GatherReturns(r)

\* a download ends within its 4-second timeout; the semaphore wakes its
\* waiters in turn
SpecDownload ==
    /\ Init
    /\ [][NextDownload]_vars
    /\ \A r \in Gathers :
          /\ WF_vars(\E outcome \in DownloadOutcomes : DownloadEnds(r, outcome))
          /\ SF_vars(AcquireSlot(r))

RECURSIVE SumInFlight(_)
SumInFlight(S) ==
    IF S = {} THEN 0
    ELSE LET r == CHOOSE x \in S : TRUE
         IN  downloads[r].in_flight + SumInFlight(S \ {r})

\* the downloads in flight, over all requests
InFlight == SumInFlight(Gathers)

\* C26: at every moment at most 5 image downloads are in flight, over all
\* the requests that share the orchestrator and for any number of search
\* results; every download that ended has given its slot back; and every
\* download of a request ends.
C26_BoundedDownloads ==
    /\ [](InFlight <= Slots /\ semaphore = Slots - InFlight)
    /\ \A r \in Gathers :
          (downloads[r].results > 0)
              ~> (downloads[r].waiting = 0 /\ downloads[r].in_flight = 0)

\* all five slots taken while downloads of both requests wait
C26_Witness ==
    /\ InFlight = Slots
    /\ \A r \in Gathers : downloads[r].waiting > 0 /\ downloads[r].in_flight > 0

(***************************************************************************)
(* CRUDProduct.search_by_vector on its own                                 *)
(***************************************************************************)
\* min_price / max_price not given
NoPrice == 0 - 1

\* `if min_price:`
PriceGiven(price) == price # NoPrice /\ price # 0

\* CRUDProduct.search_by_vector; the exclude lists are sets, {} for None
search_by_vector(query_vector, limit, exclude_category, exclude_id, min_price, max_price, filter_gender) ==
    IF Falsy(query_vector)
    THEN get_multi(limit)
    ELSE LET S == {i \in Ids : /\ IsLive(products[i])
                               /\ products[i].embedding # NoVec
                               /\ products[i].category \notin exclude_category
                               /\ i \notin exclude_id
                               /\ (PriceGiven(min_price) => products[i].price >= min_price)
                               /\ (PriceGiven(max_price) => products[i].price <= max_price)
                               /\ GenderOk(products[i], filter_gender)}
         IN  Select(S, ByDistance(S, "embedding", query_vector),
                    Distances(S, "embedding", query_vector), limit, "VECTOR")

VectorCreateInputs ==
    { [name |-> SHIRT, category |-> TOPS, gender |-> "Male", price |-> 10000,
       embedding |-> TextA],
      [name |-> SHIRT, category |-> TOPS, gender |-> "Female", price |-> 30000,
       embedding |-> TextB],
      [name |-> PANTS, category |-> BOTTOMS, gender |-> "Unisex", price |-> 30000,
       is_active |-> FALSE, embedding |-> TextAB] }

\* the price ranges a caller passes: none, and 30000 +- 15 %
PriceRanges == { <<NoPrice, NoPrice>>, <<25500, 34500>> }

ApplySearchByVector(query_vector, limit, exclude_category, exclude_id, price_range, filter_gender) ==
    /\ Quiet
    /\ calc = NoCalc
    /\ \E rows \in search_by_vector(query_vector, limit, exclude_category, exclude_id,
                                    price_range[1], price_range[2], filter_gender) :
          calc' = [op |-> "search_by_vector", query_vector |-> query_vector,
                   limit |-> limit, exclude_category |-> exclude_category,
                   exclude_id |-> exclude_id, min_price |-> price_range[1],
                   max_price |-> price_range[2], filter_gender |-> filter_gender,
                   out |-> rows]
    /\ UNCHANGED << catalog_vars, request_vars, service_vars >>

NextVector ==
    \/ Budget(MaxStoreWrites) /\ calc = NoCalc /\ \E d \in VectorCreateInputs : CreateProduct(d)
    \/ \E query_vector \in {NoVec, <<>>, TextA}, limit \in Limits,
          exclude_category \in {{}, {TOPS}}, exclude_id \in {{}, {1}},
          price_range \in PriceRanges, filter_gender \in {NULL, "Male"} :
          ApplySearchByVector(query_vector, limit, exclude_category, exclude_id,
                              price_range, filter_gender)

SpecVector == Init /\ [][NextVector]_vars

\* the scalar filters of the call hold for the product
PassesFilters(i) ==
    /\ i \notin calc.exclude_id
    /\ products[i].category \notin calc.exclude_category
    /\ (calc.min_price # NoPrice => products[i].price >= calc.min_price)
    /\ (calc.max_price # NoPrice => products[i].price <= calc.max_price)
    /\ products[i].is_active = TRUE
    /\ (calc.filter_gender # NULL
          => products[i].gender \in {calc.filter_gender, "Unisex", NULL})

\* C28: no product search_by_vector returns is excluded by id or category,
\* priced outside the range, inactive, or of another gender than the filter
\* allows, whatever the query vector, an empty or absent one included.
C28_ScalarFilters ==
    calc.op = "search_by_vector" =>
        \A k \in DOMAIN calc.out : PassesFilters(calc.out[k].id)

(***************************************************************************)
(* services/vector_search.py: search_similar_products and its cache        *)
(***************************************************************************)
\* embedding <=> :embedding, NULL for a row without a text vector
RowDistance(i, embedding) ==
    IF products[i].embedding = NoVec THEN NoDist
    ELSE cosine_distance(products[i].embedding, embedding)

\* ORDER BY ... ASC puts NULL after every value
NullsLast(d) == IF d = NoDist THEN 2 * DistUnit + 2 ELSE SortKey(d)

\* 1 - (embedding <=> :embedding)
RowSimilarity(d) == IF d \in {NoDist, NaN} THEN d ELSE DistUnit - d

\* the SELECT of search_similar_products: the possible row lists
similar_query(embedding, limit) ==
    LET S == {i \in Ids : products[i].deleted_at = NoTime}
        key == [i \in S |-> NullsLast(RowDistance(i, embedding))]
    IN  { [k \in 1..Min(limit, Cardinality(S)) |->
             [id |-> order[k], name |-> products[order[k]].name,
              price |-> products[order[k]].price,
              image_url |-> products[order[k]].image_url,
              similarity |-> RowSimilarity(RowDistance(order[k], embedding))]] :
          order \in SortedSeqs(S, key) }

\* vector_search:<md5 of the embedding>:<limit>
cache_key(embedding, limit) == << embedding, limit >>

\* redis GET: the values stored under the key
Cached(key) == { e.value : e \in { c \in cache : c.key = key } }

\* redis SETEX
SetEx(key, value) == { c \in cache : c.key # key } \cup { [key |-> key, value |-> value] }

\* search_similar_products: answered from the cache when the key is there,
\* from the database otherwise, the answer then stored for 600 seconds
search_similar_products(embedding, limit) ==
    /\ Quiet
    /\ calc = NoCalc
    /\ LET key == cache_key(embedding, limit)
       IN  IF Cached(key) # {}
           THEN /\ \E value \in Cached(key) :
                      calc' = [op |-> "search_similar_products", embedding |-> embedding,
                               limit |-> limit, hit |-> TRUE, out |-> value]
                /\ UNCHANGED cache
           ELSE \E rows \in similar_query(embedding, limit) :
                   /\ cache' = SetEx(key, rows)
                   /\ calc' = [op |-> "search_similar_products", embedding |-> embedding,
                               limit |-> limit, hit |-> FALSE, out |-> rows]
    /\ UNCHANGED << semaphore, downloads, engine, catalog_vars, request_vars >>

\* the entry's 600 seconds are over
Expire(key) ==
    /\ Cached(key) # {}
    /\ cache' = { c \in cache : c.key # key }
    /\ UNCHANGED << semaphore, downloads, engine, catalog_vars, request_vars, calc >>

\* the caller has its answer
SimilarReturned ==
    /\ calc.op = "search_similar_products"
    /\ calc' = NoCalc
    /\ UNCHANGED << catalog_vars, request_vars, service_vars >>

NextCache ==
    \/ Budget(MaxWrites) /\ calc = NoCalc /\ \E d \in VectorCreateInputs : CreateProduct(d)
    \/ Budget(MaxWrites) /\ calc = NoCalc /\ \E i \in Ids : soft_delete(i)
    \/ Budget(MaxWrites) /\ calc = NoCalc /\ \E i \in Ids : hard_delete(i)
    \/ \E embedding \in {TextA, TextB}, limit \in Limits :
          search_similar_products(embedding, limit)
    \/ \E embedding \in {TextA, TextB}, limit \in Limits :
          Expire(cache_key(embedding, limit))
    \/ SimilarReturned

SpecCache == Init /\ [][NextCache]_vars

\* C29: search_similar_products returns the rows a direct query of the
\* database returns at the time of the call, from the cache or not.
C29_CacheIsTransparent ==
    calc.op = "search_similar_products" =>
        calc.out \in similar_query(calc.embedding, calc.limit)

(***************************************************************************)
(* ModelEngine: initialize() and the lazy calls of the request handlers    *)
(***************************************************************************)
\* the most runs of the loading body a behaviour may count
MaxLoads == 2

\* the other state is left alone by the engine's steps
EngineStep ==
    UNCHANGED << semaphore, downloads, cache, catalog_vars, request_vars, calc >>

\* thread t goes to pc p
Goto(e, t, p) == [e EXCEPT !.pc[t] = p]

\* where initialize() returns to
AfterInitialize(e, t) == IF e.caller[t] = "generate_embedding" THEN "embed" ELSE "idle"

\* lifespan, main.py 23-24: model_engine.initialize()
CallInitialize(t) ==
    /\ engine.pc[t] = "idle"
    /\ engine' = [Goto(engine, t, "check") EXCEPT !.caller[t] = "initialize",
                                                  !.out[t] = NoVec]
    /\ EngineStep

\* generate_embedding, line 318: `if not self.bert_model: self.initialize()`
CallGenerateEmbedding(t) ==
    /\ engine.pc[t] = "idle"
    /\ engine' = [Goto(engine, t, IF engine.bert_model = "None" THEN "check" ELSE "embed")
                    EXCEPT !.caller[t] = "generate_embedding", !.out[t] = NoVec]
    /\ EngineStep

\* initialize, line 54: `if self.is_initialized: return`
FirstCheck(t) ==
    /\ engine.pc[t] = "check"
    /\ engine' = Goto(engine, t, IF engine.is_initialized
                                 THEN AfterInitialize(engine, t) ELSE "lock")
    /\ EngineStep

\* line 56: `with self._lock`
AcquireLock(t) ==
    /\ engine.pc[t] = "lock"
    /\ engine.lock = NULL
    /\ engine' = [Goto(engine, t, "check_again") EXCEPT !.lock = t]
    /\ EngineStep

\* line 57: `if self.is_initialized: return`, under the lock
NeedsLoadingUnchecked(e) == TRUE

NeedsLoading(e) == ~e.is_initialized

SecondCheck(t) ==
    /\ engine.pc[t] = "check_again"
    /\ IF NeedsLoading(engine)
       THEN engine' = Goto(engine, t, "load")
       ELSE engine' = [Goto(engine, t, AfterInitialize(engine, t)) EXCEPT !.lock = NULL]
    /\ EngineStep

\* lines 58-75: the loading body; a model that fails to load stays None
LoadModels(t, loaded) ==
    /\ engine.pc[t] = "load"
    /\ engine.loads < MaxLoads
    /\ engine' = [Goto(engine, t, "loaded") EXCEPT
                    !.loads = @ + 1,
                    !.bert_model = IF loaded THEN "loaded" ELSE "None"]
    /\ EngineStep

\* lines 77-78: is_initialized = True, and the lock is released
FinishInitialize(t) ==
    /\ engine.pc[t] = "loaded"
    /\ engine' = [Goto(engine, t, AfterInitialize(engine, t)) EXCEPT
                    !.is_initialized = TRUE, !.lock = NULL]
    /\ EngineStep

\* generate_embedding, lines 319-320: the embedding, or 768 zeros when the
\* call on the handle raises
Embed(t) ==
    /\ engine.pc[t] = "embed"
    /\ engine' = [Goto(engine, t, "idle") EXCEPT
                    !.out[t] = IF engine.bert_model = "None"
                               THEN Zeros(TextDim) ELSE TextA]
    /\ EngineStep

NextEngine ==
    \/ \E t \in Threads : CallInitialize(t)
    \/ \E t \in Threads : CallGenerateEmbedding(t)
    \/ \E t \in Threads : FirstCheck(t)
    \/ \E t \in Threads : AcquireLock(t)
    \/ \E t \in Threads : SecondCheck(t)
    \/ \E t \in Threads, loaded \in BOOLEAN : LoadModels(t, loaded)
    \/ \E t \in Threads : FinishInitialize(t)
    \/ \E t \in Threads : Embed(t)

SpecEngine == Init /\ [][NextEngine]_vars

\* C30: the loading body of the one ModelEngine runs at most once under any
\* interleaving of initialize() calls and lazy calls; once initialize() has
\* completed, is_initialized stays true and no call loads a model again, a
\* handle that is still None included: embedding calls then answer zeros.
C30_InitializeOnce ==
    /\ [](engine.loads <= 1)
    /\ [](\A t \in Threads :
            (engine.is_initialized /\ engine.bert_model = "None"
                                   /\ engine.out[t] # NoVec)
                => engine.out[t] = Zeros(TextDim))
    /\ [][engine.is_initialized =>
            /\ engine'.is_initialized
            /\ engine'.loads = engine.loads
            /\ engine'.bert_model = engine.bert_model]_vars

\* initialize() has completed with the text model not loaded, a handler got
\* zeros from its lazy call, and another thread that saw the engine
\* uninitialized still waits for the lock
C30_Witness ==
    /\ engine.is_initialized
    /\ engine.bert_model = "None"
    /\ engine.loads = 1
    /\ \E t \in Threads : engine.out[t] = Zeros(TextDim)
    /\ \E t \in Threads : engine.pc[t] = "lock"
====
